---- MODULE Spec2Model ----
(***************************************************************************)
(* Dashboard clients of pareto-app-prod: session handling and the          *)
(* request/response handlers of the four captured scripts.                  *)
(*                                                                          *)
(*   "admin"  : src/static/admin_dashboard.js                               *)
(*   "portal" : the CRM user portal script in src/migrate_db_direct.sh      *)
(*   "v1"     : src/unnamed/part_000                                        *)
(*   "v2"     : src/unnamed/part_001 ("v2 - Fixed Session Handling")        *)
(*                                                                          *)
(* A browser runs one task at a time.  Every handler runs up to its next    *)
(* `await fetch(...)`: the request is then in flight (pending) and the rest *)
(* of the handler is a later step, taken when the response arrives.  The    *)
(* caller of an awaited async function resumes in a microtask right after   *)
(* the callee returns: these resumptions are queued in `resume` and run     *)
(* before any other event.                                                  *)
(***************************************************************************)
EXTENDS Integers, Sequences, FiniteSets, TLC

\* ------------------------------------------------------------------------
\* Bounds of the model
\* ------------------------------------------------------------------------
MaxPending == 2      \* requests in flight at once
MaxAlerts == 1       \* alerts in the alert container at once
MaxPwLen == 9        \* longest password typed into a form
MaxCrudPending == 1  \* requests in flight at once in SpecCrud
MaxRuns == 2         \* runs of the migration script
PwLens == 0..MaxPwLen

\* ------------------------------------------------------------------------
\* JavaScript values
\* ------------------------------------------------------------------------
Null == "<null>"             \* the value null
Undef == "<undefined>"       \* the value undefined
NoAuth == "<no header>"      \* request without an Authorization header
Variants == {"admin", "portal", "v1", "v2"}

\* if (x): null, undefined and "" are falsy
Truthy(v) == v \notin {Null, Undef, ""}

\* string conversion, as done by `${x}` and by localStorage.setItem
ToStr(v) == IF v = Null THEN "null" ELSE IF v = Undef THEN "undefined" ELSE v

\* the Authorization header value after "Bearer "
Bearer(tok) == ToStr(tok)

VARIABLES
    variant,           \* which script the page runs
    apiStrict,         \* the API sends every field with success: true
    tenantsTable,      \* the tenants table of the database (migrate_db_direct.sh)
    sessionToken,      \* sessionToken / userToken (module-level variable)
    storage,           \* localStorage item sessionToken / userCrmToken (Null: no item)
    currentAdminInfo,  \* currentAdminInfo / currentUser
    listeners,         \* setupEventListeners() has run
    loginModal,        \* #loginModal has class active
    mainVisible,       \* .container-main / #mainContainer is displayed
    loginError,        \* #loginError is not hidden
    page,              \* the page that is not hidden
    alerts,            \* the alerts showAlert created, oldest first, each until it is
                       \* detached and its timer has fired
    pending,           \* fetches in flight, in the order they were issued
    resume,            \* awaiting callers to resume, innermost first
    modals,            \* the other modals that have class active
    setupError,        \* text shown in #setupError (Null: hidden)
    leads,             \* ids of the leads on display
    currentLeadId,     \* currentLeadId / currentCrmLeadId
    filterValue,       \* value of the filter control of the list on display
    users,             \* ids of the rows of #usersTableBody
    serverUsers,       \* ids of the users the server holds
    tenants,           \* the module-level list tenants: "empty", "loaded" or Undef
    currentEditingUserId, \* currentEditingUserId (Null: adding a user)
    currentTokenUserId,  \* currentTokenUserId
    userForm,          \* the user whose data fills #userForm (Null: blank)
    tenantId,          \* value of the hidden field #tenantId ("": adding a tenant)
    tenantActive,      \* value of the select #tenantActive: "true" or "false"
    passwordForm,      \* the values #changePasswordForm holds
    currentDeleteTarget, \* currentDeleteTarget: {type, id}, or NoTarget for null
    last               \* history: the event of the last step and the requests it issued

envVars == <<variant, apiStrict, tenantsTable>>
sessionVars == <<sessionToken, storage, currentAdminInfo>>
viewVars == <<loginModal, mainVisible, loginError, page>>
formVars == <<modals, setupError>>
leadVars == <<leads, currentLeadId, filterValue>>
idVars == <<currentEditingUserId, currentTokenUserId, userForm, tenantId, tenantActive,
           passwordForm>>
adminVars == <<users, serverUsers, tenants, currentDeleteTarget, idVars>>
vars == <<variant, apiStrict, tenantsTable, sessionToken, storage, currentAdminInfo, listeners, loginModal,
          mainVisible, loginError, page, alerts, pending, resume, modals, setupError,
          leads, currentLeadId, filterValue, users, serverUsers, tenants,
          currentEditingUserId, currentTokenUserId, userForm, tenantId, tenantActive,
          passwordForm, currentDeleteTarget, last>>

\* ------------------------------------------------------------------------
\* Requests, responses, alerts
\* ------------------------------------------------------------------------
Req(kind, auth, arg, cont) == [kind |-> kind, auth |-> auth, arg |-> arg, cont |-> cont]

RemoveAt(q, i) == SubSeq(q, 1, i - 1) \o SubSeq(q, i + 1, Len(q))

\* What a fetch can yield: a rejection (or a body that is not JSON), or a JSON
\* body.  `token`: data.session_token; `info`: data.admin / data.user
\* ("full": with full_name, "nofull": without); `data`: result.data present.
Throw == [t |-> "throw", success |-> FALSE, token |-> Undef, info |-> Undef, data |-> FALSE]
Json(success, token, info, data) ==
    [t |-> "json", success |-> success, token |-> token, info |-> info, data |-> data]
Failure == Json(FALSE, Undef, Undef, FALSE)

\* A strict API sends session_token, admin/user (with full_name) and data with
\* every success; the scripts also test for bodies that lack them.
Infos == IF apiStrict THEN {"full"} ELSE {"full", "nofull", Undef}
LoginResponses ==
    {Throw, Failure}
        \cup {Json(TRUE, tk, a, FALSE) :
                tk \in (IF apiStrict THEN {"t2"} ELSE {"t2", Undef}), a \in Infos}
ValidateResponses ==
    {Throw, Failure} \cup {Json(TRUE, Undef, a, FALSE) : a \in Infos}
PlainResponses ==
    {Throw, Failure}
        \cup {Json(TRUE, Undef, Undef, d) : d \in (IF apiStrict THEN {TRUE} ELSE BOOLEAN)}

\* `password.length < 8` in handlePasswordSetup
MinPasswordLength == 8

\* the values typed into a password field: n characters, the first one c
Pw(n, c) == [k \in 1..n |-> IF k = 1 THEN c ELSE "x"]
Passwords == {Pw(n, c) : n \in PwLens, c \in {"a", "b"}}

\* #changePasswordForm with nothing typed, as reset() leaves it
BlankPasswordForm == [new |-> <<>>, confirm |-> <<>>]

\* currentDeleteTarget = null
NoTarget == [type |-> Null, id |-> Null]

\* the users the server holds when the page loads
UserIds == {"u1", "u2"}

\* the leads the server knows
LeadIds == {"l1"}

\* the values of a filter control: "" (all) or a status
FilterValues == {"", "Open"}

\* an alert as showAlert creates it: a child of #alertContainer (attached)
\* whose 5 s timer is due
Alert(msg, type) == [msg |-> msg, type |-> type, attached |-> TRUE, timer |-> TRUE]
CanAlert == Len(alerts) < MaxAlerts

Event(ev, arg, sent) == [ev |-> ev, arg |-> arg, sent |-> sent]

\* No awaiting caller is due to resume: the next task (event, response) may run.
Idle == resume = <<>>
CanSend == Len(pending) < MaxPending

\* ------------------------------------------------------------------------
\* The tenants table and the migration of src/migrate_db_direct.sh
\* ------------------------------------------------------------------------
ColumnNames == {"id", "company_name", "created_at", "updated_at"}

\* a column that the table does not have
Absent == [type |-> Null, default |-> Null]

\* TIMESTAMP DEFAULT CURRENT_TIMESTAMP
MigrationColumn == [type |-> "TIMESTAMP", default |-> "CURRENT_TIMESTAMP"]

\* what a column can be before the script runs
ColumnDefs == {Absent, MigrationColumn, [type |-> "DATE", default |-> Null]}

\* the states the database can be in before the script runs: no tenants
\* table, or one with any of the columns
Tables ==
    {[exists |-> FALSE, cols |-> [c \in ColumnNames |-> Absent]]}
        \cup {[exists |-> TRUE, cols |-> f] : f \in [ColumnNames -> ColumnDefs]}

\* the table the dashboards are served from
MigratedTable == [exists |-> TRUE, cols |-> [c \in ColumnNames |-> MigrationColumn]]

\* (mutant) ALTER TABLE ... ADD COLUMN that redefines a column it finds
AddColumnIfNotExists_replace(t, c, def) ==
    IF ~t.exists THEN t ELSE [t EXCEPT !.cols[c] = def]

\* ALTER TABLE tenants ADD COLUMN IF NOT EXISTS c def: an error when there is
\* no such table, a notice when the column exists, and psql goes on
AddColumnIfNotExists(t, c, def) ==
    IF ~t.exists THEN t
    ELSE IF t.cols[c] # Absent THEN t
    ELSE [t EXCEPT !.cols[c] = def]

\* the statements of the heredoc, in order (\d tenants only describes)
Migrate(t) ==
    AddColumnIfNotExists(AddColumnIfNotExists(t, "created_at", MigrationColumn),
                         "updated_at", MigrationColumn)

\* ------------------------------------------------------------------------
\* Page load: the module-level initialisers and the DOMContentLoaded handler
\* up to its first await.  The markup is not part of the scripts: the main
\* container starts hidden and the login modal starts active only in the
\* portal, whose script never opens it on load.
\* ------------------------------------------------------------------------
Init ==
    \E v \in Variants, st \in {Null, "t1"}, strict \in BOOLEAN :
        /\ variant = v
        /\ apiStrict = strict
        /\ tenantsTable = MigratedTable
        /\ storage = st
        /\ sessionToken = st
        /\ currentAdminInfo = Null
        /\ loginError = FALSE
        /\ page = "dashboard"
        /\ alerts = <<>>
        /\ resume = <<>>
        /\ modals = {}
        /\ setupError = Null
        /\ leads = {}
        /\ currentLeadId = Null
        /\ filterValue = ""
        /\ users = {}
        /\ serverUsers = UserIds
        /\ tenants = "empty"
        /\ currentDeleteTarget = NoTarget
        /\ currentEditingUserId = Null
        /\ currentTokenUserId = Null
        /\ userForm = Null
        /\ tenantId = ""
        /\ tenantActive = "true"
        /\ passwordForm = BlankPasswordForm
        /\ mainVisible = FALSE
        /\ IF Truthy(st)
              THEN /\ pending = <<Req("validate", Bearer(st), "-",
                                      IF v \in {"admin", "portal"} THEN <<"init">> ELSE <<>>)>>
                   /\ listeners = (v \in {"v1", "v2"})
                   /\ loginModal = (v \in {"v1", "portal"})
              ELSE /\ pending = <<>>
                   /\ listeners = TRUE
                   /\ loginModal = TRUE
        /\ last = Event("load", "-", pending)

\* ------------------------------------------------------------------------
\* View helpers
\* ------------------------------------------------------------------------
showLoginModal == loginModal' = TRUE /\ mainVisible' = FALSE

hideLoginModal == loginModal' = FALSE /\ mainVisible' = TRUE

\* (mutant) the login error is hidden instead of shown
showLoginError_hides == loginError' = FALSE

\* the login error is filled in and un-hidden
showLoginError == loginError' = TRUE

\* showAlert(message, type): appends the alert to the container
showAlert(msg, type) == alerts' = Append(alerts, Alert(msg, type))

\* the children of #alertContainer
Container == SelectSeq(alerts, LAMBDA a : a.attached)

\* an alert that is neither in the document nor awaited by a timer is garbage
Live(q) == SelectSeq(q, LAMBDA a : a.attached \/ a.timer)

\* Element.remove(): detaches the element; nothing happens, and nothing is
\* raised, when it has no parent
remove(a) == [a EXCEPT !.attached = FALSE]

\* (mutant) the test of the timer callback inverted
alertTimer_inverted(a) ==
    [(IF variant \in {"admin", "portal"}
        THEN (IF ~a.attached THEN remove(a) ELSE a)
        ELSE remove(a)) EXCEPT !.timer = FALSE]

\* the callback of setTimeout: admin and portal test alert.parentElement
\* before alert.remove(), part_000 and part_001 call alert.remove() at once
alertTimer(a) ==
    [(IF variant \in {"admin", "portal"}
        THEN (IF a.attached THEN remove(a) ELSE a)
        ELSE remove(a)) EXCEPT !.timer = FALSE]

\* the 5 s timer of an alert fires: timers set with the same delay fire in
\* the order they were set
AlertTimeout ==
    \E j \in 1..Len(alerts) :
        /\ alerts[j].timer
        /\ \A k \in 1..(j - 1) : ~alerts[k].timer
        /\ alerts' = Live([alerts EXCEPT ![j] = alertTimer(alerts[j])])
        /\ last' = Event(IF alerts[j].attached THEN "alert_removed" ELSE "alert_timer",
                         "-", <<>>)
        /\ UNCHANGED <<envVars, adminVars, sessionVars, listeners, viewVars, pending, resume, formVars, leadVars>>

\* click on the close button of an alert (admin and portal give it one):
\* this.parentElement.remove()
Alert_close(j) ==
    /\ variant \in {"admin", "portal"}
    /\ alerts[j].attached
    /\ alerts' = Live([alerts EXCEPT ![j] = remove(alerts[j])])
    /\ last' = Event("alert_closed", "-", <<>>)
    /\ UNCHANGED <<envVars, adminVars, sessionVars, listeners, viewVars, pending, resume, formVars, leadVars>>

\* (mutant) the stored item is left behind
clearToken_memoryOnly == sessionToken' = Null /\ storage' = storage

\* sessionToken = null; localStorage.removeItem(key)
clearToken == sessionToken' = Null /\ storage' = Null

\* (mutant) the token is kept in memory only
storeToken_memoryOnly(tok) == sessionToken' = tok /\ storage' = storage

\* sessionToken = data.session_token; localStorage.setItem(key, sessionToken)
storeToken(tok) == sessionToken' = tok /\ storage' = ToStr(tok)

\* ------------------------------------------------------------------------
\* admin: src/static/admin_dashboard.js
\* ------------------------------------------------------------------------

\* submit of #loginForm: handleLogin up to `await fetch(.../auth/login)`
handleLogin_admin ==
    /\ variant = "admin" /\ Idle /\ listeners /\ loginModal /\ CanSend
    /\ LET r == Req("login", NoAuth, "-", <<>>) IN
        /\ pending' = Append(pending, r)
        /\ last' = Event("login_submit", "-", <<r>>)
    /\ UNCHANGED <<envVars, adminVars, sessionVars, listeners, viewVars, alerts, resume, formVars, leadVars>>

\* handleLogin from the response on, up to `await loadDashboard()`
handleLogin_admin_then(i) ==
    /\ variant = "admin" /\ Idle /\ pending[i].kind = "login"
    /\ \E r \in LoginResponses :
        IF r.t = "json" /\ r.success
        THEN /\ storeToken(r.token)
             /\ currentAdminInfo' = r.info
             /\ loginModal' = FALSE
             /\ mainVisible' = TRUE
             /\ IF r.info = "nofull"
                  \* updateAdminInfo(): full_name.split throws, caught by handleLogin
                  THEN /\ showLoginError
                       /\ pending' = RemoveAt(pending, i)
                       /\ last' = Event("login_ok", r.token, <<>>)
                  ELSE LET d == Req("dashboard", Bearer(r.token), "-", <<"login">>) IN
                       /\ loginError' = loginError
                       /\ pending' = Append(RemoveAt(pending, i), d)
                       /\ last' = Event("login_ok", r.token, <<d>>)
             /\ UNCHANGED <<page>>
        ELSE /\ showLoginError
             /\ pending' = RemoveAt(pending, i)
             /\ last' = Event("login_failed", "-", <<>>)
             /\ UNCHANGED <<sessionVars, loginModal, mainVisible, page>>
    /\ UNCHANGED <<envVars, adminVars, listeners, alerts, resume, formVars, leadVars>>

\* handleLogin after `await loadDashboard()`
handleLogin_admin_resume ==
    /\ variant = "admin" /\ resume # <<>> /\ Head(resume) = "login" /\ CanAlert
    /\ showAlert("Login successful!", "success")
    /\ resume' = Tail(resume)
    /\ last' = Event("login_done", "-", <<>>)
    /\ UNCHANGED <<envVars, adminVars, sessionVars, listeners, viewVars, pending, formVars, leadVars>>

\* validateSession from the response on
validateSession_admin_then(i) ==
    /\ variant = "admin" /\ Idle /\ pending[i].kind = "validate"
    /\ \E r \in ValidateResponses :
        IF r.t = "json" /\ r.success /\ r.info # "nofull"
        THEN LET d == Req("dashboard", Bearer(sessionToken), "-",
                          <<"validate">> \o pending[i].cont) IN
             /\ currentAdminInfo' = r.info
             /\ pending' = Append(RemoveAt(pending, i), d)
             /\ last' = Event("validate_ok", "-", <<d>>)
             /\ UNCHANGED <<sessionToken, storage, loginModal, mainVisible, resume>>
        ELSE \* success=false, a rejected fetch, or updateAdminInfo() throwing
             /\ clearToken
             /\ currentAdminInfo' = IF r.t = "json" /\ r.success THEN r.info
                                    ELSE currentAdminInfo
             /\ showLoginModal
             /\ pending' = RemoveAt(pending, i)
             /\ resume' = pending[i].cont
             /\ last' = Event(IF r.t = "json" /\ r.success THEN "validate_ok_threw"
                              ELSE "validate_failed", "-", <<>>)
    /\ UNCHANGED <<envVars, adminVars, listeners, loginError, page, alerts, formVars, leadVars>>

\* validateSession after `await loadDashboard()`
validateSession_admin_resume ==
    /\ variant = "admin" /\ resume # <<>> /\ Head(resume) = "validate"
    /\ mainVisible' = TRUE
    /\ resume' = Tail(resume)
    /\ last' = Event("validate_done", "-", <<>>)
    /\ UNCHANGED <<envVars, adminVars, sessionVars, listeners, loginModal, loginError, page, alerts,
                   pending, formVars, leadVars>>

\* the DOMContentLoaded handler after `await validateSession()`
DOMContentLoaded_resume ==
    /\ variant \in {"admin", "portal"} /\ resume # <<>> /\ Head(resume) = "init"
    /\ listeners' = TRUE
    /\ resume' = Tail(resume)
    /\ last' = Event("listeners", "-", <<>>)
    /\ UNCHANGED <<envVars, adminVars, sessionVars, viewVars, alerts, pending, formVars, leadVars>>

\* click on #logoutBtn: logout up to `await fetch(.../auth/logout)`
logout_admin ==
    /\ variant = "admin" /\ Idle /\ listeners /\ mainVisible /\ CanSend
    /\ LET r == Req("logout", Bearer(sessionToken), "-", <<>>) IN
        /\ pending' = Append(pending, r)
        /\ last' = Event("logout_click", "-", <<r>>)
    /\ UNCHANGED <<envVars, adminVars, sessionVars, listeners, viewVars, alerts, resume, formVars, leadVars>>

\* (mutant) the local logout is skipped when the fetch was rejected
logout_admin_then_onSuccess(i) ==
    /\ variant = "admin" /\ Idle /\ pending[i].kind = "logout"
    /\ \E r \in PlainResponses :
        /\ IF r.t = "throw"
              THEN UNCHANGED <<sessionVars, loginModal, mainVisible>>
              ELSE clearToken /\ currentAdminInfo' = Null /\ showLoginModal
        /\ last' = [ev |-> "logout_done", arg |-> "-", sent |-> <<>>, outcome |-> r.t]
    /\ pending' = RemoveAt(pending, i)
    /\ UNCHANGED <<envVars, adminVars, listeners, loginError, page, alerts, resume, formVars, leadVars>>

\* logout after the fetch settled: the response is not read, and a rejection
\* is caught and logged (`outcome` records which it was)
logout_admin_then(i) ==
    /\ variant = "admin" /\ Idle /\ pending[i].kind = "logout"
    /\ clearToken
    /\ currentAdminInfo' = Null
    /\ showLoginModal
    /\ pending' = RemoveAt(pending, i)
    /\ \E r \in PlainResponses :
        last' = [ev |-> "logout_done", arg |-> "-", sent |-> <<>>, outcome |-> r.t]
    /\ UNCHANGED <<envVars, adminVars, listeners, loginError, page, alerts, resume, formVars, leadVars>>

\* loadDashboard from the response on
loadDashboard_admin_then(i) ==
    /\ variant = "admin" /\ Idle /\ pending[i].kind = "dashboard"
    /\ \E r \in PlainResponses :
        IF r.t = "json" /\ r.success
        THEN /\ alerts' = alerts
             /\ last' = Event("dashboard_ok", "-", <<>>)
        ELSE /\ CanAlert
             /\ showAlert(IF r.t = "throw" THEN "Failed to load dashboard data"
                          ELSE "data.message", "error")
             /\ last' = Event("dashboard_failed", r.t, <<>>)
    /\ pending' = RemoveAt(pending, i)
    /\ resume' = pending[i].cont
    /\ UNCHANGED <<envVars, adminVars, sessionVars, listeners, viewVars, formVars, leadVars>>
\* click on a sidebar item: navigateToPage(page) as redefined at the end of the
\* script; each loader runs up to its fetch.  'dashboard' calls
\* loadDashboardData, which the script does not define: nothing is requested.
Pages_admin == {"dashboard", "users", "tenants", "crm", "audit-logs", "settings"}
LoaderOf(p) ==
    CASE p = "users" -> "users"
      [] p = "tenants" -> "tenants"
      [] p = "crm" -> "crm_leads"
      [] p = "audit-logs" -> "audit"
      [] OTHER -> Null
\* the query string of a loader: the audit-log and CRM loaders read their
\* filter controls, f being their value
LoaderArg(kind, f) == IF kind \in {"crm_leads", "audit"} THEN f ELSE "-"
PageLoad(p, tok, f) ==
    IF LoaderOf(p) = Null THEN <<>>
    ELSE <<Req(LoaderOf(p), Bearer(tok), LoaderArg(LoaderOf(p), f), <<>>)>>
\* how the call ends: loadDashboardData() raises a ReferenceError
NavigateEvent(p) == IF p = "dashboard" THEN "navigate_threw" ELSE "navigate"
navigateToPage_admin(p) ==
    /\ variant = "admin" /\ Idle /\ listeners /\ mainVisible
    /\ page' = p
    /\ LET sent == PageLoad(p, sessionToken, filterValue)
       IN  /\ sent # <<>> => CanSend
           /\ pending' = pending \o sent
           /\ last' = Event(NavigateEvent(p), p, sent)
    /\ UNCHANGED <<envVars, adminVars, sessionVars, listeners, loginModal, mainVisible,
                   loginError, alerts, resume, formVars, leadVars>>

\* loadUsers from the response on: displayUsers(data.users), then
\* loadTenantsForDropdown() up to `await loadTenants()`.  A users request
\* carries in `arg` the user whose deletion issued it ("-": none), as history.
loadUsers_then(i) ==
    /\ variant = "admin" /\ Idle /\ pending[i].kind = "users"
    /\ \E r \in PlainResponses :
        IF r.t = "json" /\ r.success /\ r.data
        THEN /\ users' = serverUsers
             /\ last' = Event("users_ok", pending[i].arg,
                              IF tenants = "empty"
                              THEN <<Req("tenants", Bearer(sessionToken), "-", <<"dropdown">>)>>
                              ELSE <<>>)
             /\ pending' = RemoveAt(pending, i) \o last'.sent
             \* tenants.length of undefined throws into the catch of loadUsers
             /\ IF tenants = Undef
                   THEN CanAlert /\ showAlert("Failed to load users", "error")
                   ELSE alerts' = alerts
        ELSE \* success=false, a rejected fetch, or displayUsers(undefined) throwing
             /\ CanAlert
             /\ showAlert(IF r.t = "json" /\ ~r.success THEN "data.message"
                          ELSE "Failed to load users", "error")
             /\ users' = users
             /\ pending' = RemoveAt(pending, i)
             /\ last' = Event("users_failed", r.t, <<>>)
    /\ UNCHANGED <<envVars, serverUsers, tenants, currentDeleteTarget, idVars, sessionVars,
                   listeners, viewVars, resume, formVars, leadVars>>

\* loadTenants from the response on: tenants = data.tenants; displayTenants(tenants)
loadTenants_then(i) ==
    /\ variant = "admin" /\ Idle /\ pending[i].kind = "tenants"
    /\ \E r \in PlainResponses :
        IF r.t = "json" /\ r.success
        THEN /\ tenants' = IF r.data THEN "loaded" ELSE Undef
             \* displayTenants(undefined) throws into the catch
             /\ IF r.data THEN alerts' = alerts
                ELSE CanAlert /\ showAlert("Failed to load tenants", "error")
             /\ last' = Event(IF r.data THEN "tenants_ok" ELSE "tenants_failed", r.t, <<>>)
        ELSE /\ CanAlert
             /\ showAlert(IF r.t = "throw" THEN "Failed to load tenants"
                          ELSE "data.message", "error")
             /\ tenants' = tenants
             /\ last' = Event("tenants_failed", r.t, <<>>)
    /\ pending' = RemoveAt(pending, i)
    /\ resume' = pending[i].cont
    /\ UNCHANGED <<envVars, users, serverUsers, currentDeleteTarget, idVars, sessionVars,
                   listeners, viewVars, formVars, leadVars>>

\* loadTenantsForDropdown after `await loadTenants()`: fills #userTenant;
\* tenants.map of undefined throws into the catch of loadUsers
loadTenantsForDropdown_resume ==
    /\ variant = "admin" /\ resume # <<>> /\ Head(resume) = "dropdown"
    /\ IF tenants = Undef
          THEN CanAlert /\ showAlert("Failed to load users", "error")
          ELSE alerts' = alerts
    /\ resume' = Tail(resume)
    /\ last' = Event("dropdown_done", "-", <<>>)
    /\ UNCHANGED <<envVars, adminVars, sessionVars, listeners, viewVars, pending, formVars,
                   leadVars>>

\* click on the delete button of a user row: confirmDeleteUser(userId)
confirmDeleteUser(userId) ==
    /\ variant = "admin" /\ Idle /\ mainVisible /\ page = "users" /\ userId \in users
    /\ currentDeleteTarget' = [type |-> "user", id |-> userId]
    /\ modals' = modals \cup {"deleteConfirmModal"}
    /\ last' = Event("delete_ask", userId, <<>>)
    /\ UNCHANGED <<envVars, users, serverUsers, tenants, idVars, sessionVars, listeners,
                   viewVars, alerts, pending, resume, setupError, leadVars>>

\* click on the confirm button of #deleteConfirmModal: confirmDelete up to its fetch
confirmDelete ==
    /\ variant = "admin" /\ Idle /\ "deleteConfirmModal" \in modals
    /\ IF currentDeleteTarget = NoTarget
          THEN /\ pending' = pending
               /\ last' = Event("delete_skipped", "-", <<>>)
          ELSE LET r == [kind |-> "delete", auth |-> Bearer(sessionToken),
                         arg |-> currentDeleteTarget.id, cont |-> <<>>,
                         type |-> currentDeleteTarget.type] IN
               /\ CanSend
               /\ pending' = Append(pending, r)
               /\ last' = Event("delete_click", currentDeleteTarget.id, <<r>>)
    /\ UNCHANGED <<envVars, adminVars, sessionVars, listeners, viewVars, alerts, resume,
                   formVars, leadVars>>

\* The users the server may hold once DELETE /admin/users/<id> was answered by
\* r: a success removed the user, a failure did not, and a request whose
\* response was lost may have done either.
ServerAfterDelete(id, r) ==
    IF r.t = "json" /\ r.success THEN {serverUsers \ {id}}
    ELSE IF r.t = "throw" THEN {serverUsers, serverUsers \ {id}}
    ELSE {serverUsers}

\* (mutant) the list is not loaded again after a successful deletion
confirmDelete_reload_never(type, id) == <<>>

\* (mutant) the list is loaded again whatever the outcome
confirmDelete_failed_reload(type, id) ==
    <<Req("users", Bearer(sessionToken), id, <<>>)>>

\* `if (type === 'user') loadUsers()` after a successful deletion
confirmDelete_reload(type, id) ==
    IF type = "user" THEN <<Req("users", Bearer(sessionToken), id, <<>>)>> ELSE <<>>

\* what confirmDelete requests after a failed deletion
confirmDelete_failed(type, id) == <<>>

\* confirmDelete from the response on
confirmDelete_then(i) ==
    /\ variant = "admin" /\ Idle /\ pending[i].kind = "delete" /\ CanAlert
    /\ LET type == pending[i].type
           id == pending[i].arg
       IN \E r \in PlainResponses :
            /\ serverUsers' \in ServerAfterDelete(id, r)
            /\ IF r.t = "json" /\ r.success
               THEN /\ showAlert(IF type = "user" THEN "User deleted successfully!"
                                 ELSE "<Type> deleted successfully!", "success")
                    /\ pending' = RemoveAt(pending, i) \o confirmDelete_reload(type, id)
                    /\ last' = Event("delete_ok", id, confirmDelete_reload(type, id))
               ELSE /\ showAlert(IF r.t = "throw" THEN "Failed to delete " \o type
                                 ELSE "data.message", "error")
                    /\ pending' = RemoveAt(pending, i) \o confirmDelete_failed(type, id)
                    /\ last' = Event("delete_failed", id, confirmDelete_failed(type, id))
    /\ modals' = modals \ {"deleteConfirmModal"}
    /\ currentDeleteTarget' = NoTarget
    /\ UNCHANGED <<envVars, users, tenants, idVars, sessionVars, listeners, viewVars, resume,
                   setupError, leadVars>>

\* an error alert: the fallback text when the fetch was rejected, the
\* message of the body otherwise
failed(r, fallback) ==
    showAlert(IF r.t = "throw" THEN fallback ELSE "data.message", "error")

\* click on #addUserBtn
openAddUserModal ==
    /\ variant = "admin" /\ Idle /\ listeners /\ mainVisible /\ page = "users"
    /\ currentEditingUserId' = Null
    /\ userForm' = Null     \* #userForm.reset()
    /\ modals' = modals \cup {"userModal"}
    /\ last' = Event("user_add", "-", <<>>)
    /\ UNCHANGED <<envVars, users, serverUsers, tenants, currentDeleteTarget,
                   currentTokenUserId, tenantId, tenantActive, passwordForm, sessionVars, listeners, viewVars, alerts, pending,
                   resume, setupError, leadVars>>

\* click on the edit button of a user row: openEditUserModal up to its fetch
openEditUserModal(userId) ==
    /\ variant = "admin" /\ Idle /\ mainVisible /\ page = "users" /\ userId \in users
    /\ CanSend
    /\ currentEditingUserId' = userId
    /\ LET r == Req("user", Bearer(sessionToken), userId, <<>>) IN
        /\ pending' = Append(pending, r)
        /\ last' = Event("user_edit", userId, <<r>>)
    /\ UNCHANGED <<envVars, users, serverUsers, tenants, currentDeleteTarget,
                   currentTokenUserId, userForm, tenantId, tenantActive, passwordForm, sessionVars, listeners, viewVars, alerts, resume,
                   formVars, leadVars>>

\* openEditUserModal from the response on: the fields of #userForm are set
\* from data.user; reading data.user.tenant_id of a body without user throws
\* into the catch
openEditUserModal_then(i) ==
    /\ variant = "admin" /\ Idle /\ pending[i].kind = "user"
    /\ \E r \in PlainResponses :
        IF r.t = "json" /\ r.success /\ r.data
        THEN /\ userForm' = pending[i].arg
             /\ modals' = modals \cup {"userModal"}
             /\ alerts' = alerts
             /\ last' = Event("user_ok", pending[i].arg, <<>>)
        ELSE /\ CanAlert
             /\ showAlert(IF r.t = "json" /\ ~r.success THEN "data.message"
                          ELSE "Failed to load user details", "error")
             /\ UNCHANGED <<userForm, modals>>
             /\ last' = Event("user_failed", r.t, <<>>)
    /\ pending' = RemoveAt(pending, i)
    /\ UNCHANGED <<envVars, users, serverUsers, tenants, currentDeleteTarget,
                   currentEditingUserId, currentTokenUserId, tenantId, tenantActive, passwordForm, sessionVars,
                   listeners, viewVars, resume, setupError, leadVars>>

\* submit of #userForm: handleSaveUser up to its fetch (PUT to the user being
\* edited, POST when there is none); `form`: the user whose data is the body
handleSaveUser ==
    /\ variant = "admin" /\ Idle /\ listeners /\ "userModal" \in modals /\ CanSend
    /\ LET r == [kind |-> "save_user", auth |-> Bearer(sessionToken),
                  arg |-> currentEditingUserId, cont |-> <<>>, form |-> userForm] IN
        /\ pending' = Append(pending, r)
        /\ last' = Event("save_user_submit", currentEditingUserId, <<r>>)
    /\ UNCHANGED <<envVars, adminVars, sessionVars, listeners, viewVars, alerts, resume,
                   formVars, leadVars>>

\* (mutant) a failed save is taken for an expired session
handleSaveUser_then_logout(i) ==
    /\ variant = "admin" /\ Idle /\ pending[i].kind = "save_user" /\ CanAlert
    /\ \E r \in PlainResponses :
        IF r.t = "json" /\ r.success
        THEN LET l == Req("users", Bearer(sessionToken), "-", <<>>) IN
             /\ showAlert(IF Truthy(currentEditingUserId) THEN "User updated successfully!"
                          ELSE "User created successfully!", "success")
             /\ modals' = modals \ {"userModal"}
             /\ pending' = Append(RemoveAt(pending, i), l)
             /\ last' = Event("save_user_ok", pending[i].arg, <<l>>)
             /\ UNCHANGED <<sessionVars, loginModal, mainVisible>>
        ELSE /\ failed(r, "Failed to save user")
             /\ modals' = modals
             /\ pending' = RemoveAt(pending, i)
             /\ last' = Event("save_user_failed", r.t, <<>>)
             /\ clearToken
             /\ currentAdminInfo' = Null
             /\ showLoginModal
    /\ UNCHANGED <<envVars, adminVars, listeners, loginError, page, resume, setupError,
                   leadVars>>

\* handleSaveUser from the response on
handleSaveUser_then(i) ==
    /\ variant = "admin" /\ Idle /\ pending[i].kind = "save_user" /\ CanAlert
    /\ \E r \in PlainResponses :
        IF r.t = "json" /\ r.success
        THEN LET l == Req("users", Bearer(sessionToken), "-", <<>>) IN
             /\ showAlert(IF Truthy(currentEditingUserId) THEN "User updated successfully!"
                          ELSE "User created successfully!", "success")
             /\ modals' = modals \ {"userModal"}
             /\ pending' = Append(RemoveAt(pending, i), l)
             /\ last' = Event("save_user_ok", pending[i].arg, <<l>>)
        ELSE /\ failed(r, "Failed to save user")
             /\ modals' = modals
             /\ pending' = RemoveAt(pending, i)
             /\ last' = Event("save_user_failed", r.t, <<>>)
    /\ UNCHANGED <<envVars, adminVars, sessionVars, listeners, viewVars, resume, setupError,
                   leadVars>>

\* ids of the tenants the server lists
TenantIds == {"n1", "n2"}

\* A tenant as the server lists it: its status, under the property name the
\* server uses for it (any other property of the object reads as undefined).
TenantRecords == [field : {"active", "is_active"}, status : BOOLEAN]

\* click on #addTenantBtn: the fields of #tenantForm are blanked
openAddTenantModal ==
    /\ variant = "admin" /\ Idle /\ listeners /\ mainVisible /\ page = "tenants"
    /\ tenantId' = ""
    /\ tenantActive' = "true"
    /\ modals' = modals \cup {"tenantModal"}
    /\ last' = Event("tenant_add", "-", <<>>)
    /\ UNCHANGED <<envVars, users, serverUsers, tenants, currentDeleteTarget,
                   currentEditingUserId, currentTokenUserId, userForm, passwordForm, sessionVars,
                   listeners, viewVars, alerts, pending, resume, setupError, leadVars>>

\* click on the edit button of a tenant row: the row is one of `tenants`, so
\* tenants.find returns it and the form is filled from it.  (When a later
\* load left `tenants` undefined, tenants.find throws and nothing changes.)
\* The select is prefilled from tenant.active.
openEditTenantModal(id) ==
    /\ variant = "admin" /\ Idle /\ mainVisible /\ page = "tenants" /\ tenants = "loaded"
    /\ tenantId' = id
    /\ \E tenant \in TenantRecords :
        /\ tenantActive' = IF tenant.field = "active" /\ tenant.status THEN "true"
                           ELSE "false"
        /\ last' = [ev |-> "tenant_edit", arg |-> id, sent |-> <<>>, tenant |-> tenant]
    /\ modals' = modals \cup {"tenantModal"}
    /\ UNCHANGED <<envVars, users, serverUsers, tenants, currentDeleteTarget,
                   currentEditingUserId, currentTokenUserId, userForm, passwordForm, sessionVars,
                   listeners, viewVars, alerts, pending, resume, setupError, leadVars>>

\* (mutant) a submit while a save is in flight is dropped
handleSaveTenant_once ==
    /\ variant = "admin" /\ Idle /\ listeners /\ "tenantModal" \in modals /\ CanSend
    /\ LET r == Req("save_tenant", Bearer(sessionToken), tenantId, <<>>)
           busy == \E k \in 1..Len(pending) : pending[k].kind = "save_tenant"
       IN
        /\ pending' = IF busy THEN pending ELSE Append(pending, r)
        /\ last' = Event("save_tenant_submit", tenantId, IF busy THEN <<>> ELSE <<r>>)
    /\ UNCHANGED <<envVars, adminVars, sessionVars, listeners, viewVars, alerts, resume,
                   formVars, leadVars>>

\* submit of #tenantForm: handleSaveTenant up to its fetch (POST when #tenantId
\* is empty, PUT to that tenant otherwise); the body carries
\* is_active: (value of #tenantActive) === 'true'
handleSaveTenant ==
    /\ variant = "admin" /\ Idle /\ listeners /\ "tenantModal" \in modals /\ CanSend
    /\ LET r == Req("save_tenant", Bearer(sessionToken), tenantId, <<>>) IN
        /\ pending' = Append(pending, r)
        /\ last' = [ev |-> "save_tenant_submit", arg |-> tenantId, sent |-> <<r>>,
                    is_active |-> (tenantActive = "true")]
    /\ UNCHANGED <<envVars, adminVars, sessionVars, listeners, viewVars, alerts, resume,
                   formVars, leadVars>>

\* handleSaveTenant from the response on: alert, closeModal, loadTenants() up
\* to its fetch
handleSaveTenant_then(i) ==
    /\ variant = "admin" /\ Idle /\ pending[i].kind = "save_tenant" /\ CanAlert
    /\ \E r \in PlainResponses :
        IF r.t = "json" /\ r.success
        THEN LET l == Req("tenants", Bearer(sessionToken), "-", <<>>) IN
             /\ showAlert(IF pending[i].arg = "" THEN "Tenant created successfully!"
                          ELSE "Tenant updated successfully!", "success")
             /\ modals' = modals \ {"tenantModal"}
             /\ pending' = Append(RemoveAt(pending, i), l)
             /\ last' = Event("save_tenant_ok", pending[i].arg, <<l>>)
        ELSE /\ failed(r, "Failed to save tenant")
             /\ modals' = modals
             /\ pending' = RemoveAt(pending, i)
             /\ last' = Event("save_tenant_failed", r.t, <<>>)
    /\ UNCHANGED <<envVars, adminVars, sessionVars, listeners, viewVars, resume, setupError,
                   leadVars>>

\* click on the token button of a user row
openTokenModal(userId) ==
    /\ variant = "admin" /\ Idle /\ mainVisible /\ page = "users" /\ userId \in users
    /\ currentTokenUserId' = userId
    /\ currentEditingUserId' = userId
    /\ modals' = modals \cup {"tokenModal"}
    /\ last' = Event("token_open", userId, <<>>)
    /\ UNCHANGED <<envVars, users, serverUsers, tenants, currentDeleteTarget, userForm,
                   tenantId, tenantActive, passwordForm, sessionVars,
                   listeners, viewVars, alerts, pending, resume, setupError, leadVars>>

\* the download, delete and upload buttons of #tokenModal, each up to its
\* fetch.  Download and delete address currentTokenUserId and return at once
\* when there is none (delete also when confirm() is declined); upload
\* addresses currentEditingUserId and needs a file.
tokenRequest(kind) ==
    /\ variant = "admin" /\ Idle /\ "tokenModal" \in modals
    /\ \E proceed \in BOOLEAN :
        LET id == IF kind = "token_upload" THEN currentEditingUserId ELSE currentTokenUserId
            r == Req(kind, Bearer(sessionToken), ToStr(id), <<>>)
        IN  IF kind = "token_upload" /\ ~proceed
            THEN /\ CanAlert
                 /\ showAlert("Please select a file", "warning")
                 /\ pending' = pending
                 /\ last' = Event("token_no_file", "-", <<>>)
            ELSE IF (kind # "token_upload" /\ ~Truthy(id)) \/ (kind = "token_delete" /\ ~proceed)
            THEN /\ UNCHANGED <<alerts, pending>>
                 /\ last' = Event("token_skipped", kind, <<>>)
            ELSE /\ CanSend
                 /\ alerts' = alerts
                 /\ pending' = Append(pending, r)
                 /\ last' = Event("token_click", kind, <<r>>)
    /\ UNCHANGED <<envVars, adminVars, sessionVars, listeners, viewVars, resume, formVars,
                   leadVars>>
downloadCurrentToken == tokenRequest("token_download")
deleteCurrentToken == tokenRequest("token_delete")
handleTokenUpload == tokenRequest("token_upload")

\* downloadCurrentToken from the response on: `data.success && data.token_data`
downloadCurrentToken_then(i) ==
    /\ variant = "admin" /\ Idle /\ pending[i].kind = "token_download" /\ CanAlert
    /\ \E r \in PlainResponses :
        IF r.t = "json" /\ r.success /\ r.data
        THEN /\ showAlert("Token downloaded successfully!", "success")
             /\ last' = Event("token_download_ok", pending[i].arg, <<>>)
        ELSE /\ failed(r, "Failed to download token")
             /\ last' = Event("token_download_failed", r.t, <<>>)
    /\ pending' = RemoveAt(pending, i)
    /\ UNCHANGED <<envVars, adminVars, sessionVars, listeners, viewVars, resume, formVars,
                   leadVars>>

\* deleteCurrentToken and handleTokenUpload from the response on
tokenChange_then(i, kind, done, fallback) ==
    /\ variant = "admin" /\ Idle /\ pending[i].kind = kind /\ CanAlert
    /\ \E r \in PlainResponses :
        IF r.t = "json" /\ r.success
        THEN LET l == Req("users", Bearer(sessionToken), "-", <<>>) IN
             /\ showAlert(done, "success")
             /\ modals' = modals \ {"tokenModal"}
             /\ pending' = Append(RemoveAt(pending, i), l)
             /\ last' = Event(kind \o "_ok", pending[i].arg, <<l>>)
        ELSE /\ failed(r, fallback)
             /\ modals' = modals
             /\ pending' = RemoveAt(pending, i)
             /\ last' = Event(kind \o "_failed", r.t, <<>>)
    /\ UNCHANGED <<envVars, adminVars, sessionVars, listeners, viewVars, resume, setupError,
                   leadVars>>
deleteCurrentToken_then(i) ==
    tokenChange_then(i, "token_delete", "Token deleted successfully!", "Failed to delete token")
handleTokenUpload_then(i) ==
    tokenChange_then(i, "token_upload", "Token uploaded successfully!", "Failed to upload token")

\* (mutant) the request is sent whether or not the two values are equal
handleChangePassword_unchecked ==
    /\ variant = "admin" /\ Idle /\ listeners /\ mainVisible /\ page = "settings"
    /\ \E newPassword, confirmNewPassword \in {p \in Passwords : Len(p) = MaxPwLen} :
        LET r == Req("change_password", Bearer(sessionToken), "-", <<>>) IN
        /\ passwordForm' = [new |-> newPassword, confirm |-> confirmNewPassword]
        /\ CanSend
        /\ alerts' = alerts
        /\ pending' = Append(pending, r)
        /\ last' = Event("change_password_submit", "-", <<r>>)
    /\ UNCHANGED <<envVars, users, serverUsers, tenants, currentDeleteTarget,
                   currentEditingUserId, currentTokenUserId, userForm, tenantId, tenantActive,
                   sessionVars, listeners, viewVars, resume, formVars, leadVars>>

\* submit of #changePasswordForm, with the values the form holds by then (two
\* values of the greatest length, equal or different): handleChangePassword up
\* to its fetch
handleChangePassword ==
    /\ variant = "admin" /\ Idle /\ listeners /\ mainVisible /\ page = "settings"
    /\ \E newPassword, confirmNewPassword \in {p \in Passwords : Len(p) = MaxPwLen} :
        /\ passwordForm' = [new |-> newPassword, confirm |-> confirmNewPassword]
        /\ IF newPassword # confirmNewPassword
           THEN /\ CanAlert
                /\ showAlert("New passwords do not match", "error")
                /\ pending' = pending
                /\ last' = Event("change_password_mismatch", "-", <<>>)
           ELSE LET r == Req("change_password", Bearer(sessionToken), "-", <<>>) IN
                /\ CanSend
                /\ alerts' = alerts
                /\ pending' = Append(pending, r)
                /\ last' = Event("change_password_submit", "-", <<r>>)
    /\ UNCHANGED <<envVars, users, serverUsers, tenants, currentDeleteTarget,
                   currentEditingUserId, currentTokenUserId, userForm, tenantId, tenantActive,
                   sessionVars, listeners, viewVars, resume, formVars, leadVars>>

\* handleChangePassword from the response on: #changePasswordForm.reset() on
\* success
handleChangePassword_then(i) ==
    /\ variant = "admin" /\ Idle /\ pending[i].kind = "change_password" /\ CanAlert
    /\ \E r \in PlainResponses :
        IF r.t = "json" /\ r.success
        THEN /\ showAlert("Password changed successfully!", "success")
             /\ passwordForm' = BlankPasswordForm
             /\ last' = Event("change_password_ok", "-", <<>>)
        ELSE /\ failed(r, "Failed to change password")
             /\ passwordForm' = passwordForm
             /\ last' = Event("change_password_failed", r.t, <<>>)
    /\ pending' = RemoveAt(pending, i)
    /\ UNCHANGED <<envVars, users, serverUsers, tenants, currentDeleteTarget,
                   currentEditingUserId, currentTokenUserId, userForm, tenantId, tenantActive,
                   sessionVars, listeners, viewVars, resume, formVars, leadVars>>

\* input in #userSearchInput or change of #userFilterEnabled; `matching` are
\* the users the controls now select.  The function body is empty.
filterUsers ==
    /\ variant = "admin" /\ Idle /\ listeners /\ mainVisible /\ page = "users"
    /\ \E matching \in SUBSET UserIds :
        last' = [ev |-> "filter_users", arg |-> "-", sent |-> <<>>, matching |-> matching]
    /\ UNCHANGED <<envVars, adminVars, sessionVars, listeners, viewVars, alerts, pending,
                   resume, formVars, leadVars>>

\* change of a filter of the audit-log or CRM page: the loader up to its fetch
filter_change_admin ==
    /\ variant = "admin" /\ Idle /\ listeners /\ mainVisible /\ CanSend
    /\ page \in {"audit-logs", "crm"}
    /\ filterValue' \in FilterValues \ {filterValue}
    /\ LET r == Req(LoaderOf(page), Bearer(sessionToken), filterValue', <<>>) IN
        /\ pending' = Append(pending, r)
        /\ last' = Event("filter_change", page, <<r>>)
    /\ UNCHANGED <<envVars, adminVars, sessionVars, listeners, viewVars, alerts, resume,
                   formVars, leads, currentLeadId>>

\* loadAuditLogs from the response on
loadAuditLogs_then(i) ==
    /\ variant = "admin" /\ Idle /\ pending[i].kind = "audit"
    /\ \E r \in PlainResponses :
        IF r.t = "json" /\ r.success
        THEN /\ alerts' = alerts
             /\ last' = Event("audit_ok", pending[i].arg, <<>>)
        ELSE /\ CanAlert
             /\ failed(r, "Failed to load audit logs")
             /\ last' = Event("audit_failed", r.t, <<>>)
    /\ pending' = RemoveAt(pending, i)
    /\ UNCHANGED <<envVars, adminVars, sessionVars, listeners, viewVars, resume, formVars,
                   leadVars>>

\* loadCrmLeads from the response on: crmLeads = data.leads || []
loadCrmLeads_then(i) ==
    /\ variant = "admin" /\ Idle /\ pending[i].kind = "crm_leads"
    /\ \E r \in PlainResponses :
        IF r.t = "json" /\ r.success
        THEN /\ alerts' = alerts
             /\ leads' \in IF r.data THEN SUBSET LeadIds ELSE {{}}
             /\ last' = Event("crm_leads_ok", pending[i].arg, <<>>)
        ELSE /\ CanAlert
             /\ failed(r, "Failed to load CRM leads")
             /\ leads' = leads
             /\ last' = Event("crm_leads_failed", r.t, <<>>)
    /\ pending' = RemoveAt(pending, i)
    /\ UNCHANGED <<envVars, adminVars, sessionVars, listeners, viewVars, resume, formVars,
                   currentLeadId, filterValue>>

\* click on the view button of a lead row: viewCrmLead up to its fetch
viewCrmLead(id) ==
    /\ variant = "admin" /\ Idle /\ mainVisible /\ page = "crm" /\ id \in leads /\ CanSend
    /\ LET r == Req("crm_lead", Bearer(sessionToken), id, <<>>) IN
        /\ pending' = Append(pending, r)
        /\ last' = Event("lead_click", id, <<r>>)
    /\ UNCHANGED <<envVars, adminVars, sessionVars, listeners, viewVars, alerts, resume,
                   formVars, leadVars>>

\* viewCrmLead from the response on: `data.success && data.lead`
viewCrmLead_then(i) ==
    /\ variant = "admin" /\ Idle /\ pending[i].kind = "crm_lead"
    /\ \E r \in PlainResponses :
        IF r.t = "json" /\ r.success /\ r.data
        THEN /\ currentLeadId' = pending[i].arg
             /\ modals' = modals \cup {"crmLeadModal"}
             /\ alerts' = alerts
             /\ last' = Event("crm_lead_ok", pending[i].arg, <<>>)
        ELSE /\ CanAlert
             /\ failed(r, "Failed to load lead details")
             /\ UNCHANGED <<currentLeadId, modals>>
             /\ last' = Event("crm_lead_failed", r.t, <<>>)
    /\ pending' = RemoveAt(pending, i)
    /\ UNCHANGED <<envVars, adminVars, sessionVars, listeners, viewVars, resume, setupError,
                   leads, filterValue>>

\* click on the update button of #crmLeadModal: updateCrmLeadStatus up to its fetch
updateCrmLeadStatus ==
    /\ variant = "admin" /\ Idle /\ "crmLeadModal" \in modals
    /\ IF ~Truthy(currentLeadId)
          THEN /\ pending' = pending
               /\ last' = Event("lead_update_skipped", "-", <<>>)
          ELSE LET r == Req("crm_update", Bearer(sessionToken), currentLeadId, <<>>) IN
               /\ CanSend
               /\ pending' = Append(pending, r)
               /\ last' = Event("lead_update_click", currentLeadId, <<r>>)
    /\ UNCHANGED <<envVars, adminVars, sessionVars, listeners, viewVars, alerts, resume,
                   formVars, leadVars>>

\* updateCrmLeadStatus from the response on
updateCrmLeadStatus_then(i) ==
    /\ variant = "admin" /\ Idle /\ pending[i].kind = "crm_update" /\ CanAlert
    /\ \E r \in PlainResponses :
        IF r.t = "json" /\ r.success
        THEN LET l == Req("crm_leads", Bearer(sessionToken), filterValue, <<>>) IN
             /\ showAlert("Lead status updated successfully!", "success")
             /\ modals' = modals \ {"crmLeadModal"}
             /\ pending' = Append(RemoveAt(pending, i), l)
             /\ last' = Event("crm_update_ok", pending[i].arg, <<l>>)
        ELSE /\ failed(r, "Failed to update lead status")
             /\ modals' = modals
             /\ pending' = RemoveAt(pending, i)
             /\ last' = Event("crm_update_failed", r.t, <<>>)
    /\ UNCHANGED <<envVars, adminVars, sessionVars, listeners, viewVars, resume, setupError,
                   leadVars>>

\* ------------------------------------------------------------------------
\* v1: src/unnamed/part_000, v2: src/unnamed/part_001
\* ------------------------------------------------------------------------

\* `if (!soft)`: true and the click Event are truthy, the default false is not
SoftTruthy(soft) == soft \in {"true", "event"}

\* (mutant) `if (soft)` instead of `if (!soft)`
logout_end_inverted(soft) ==
    /\ clearToken
    /\ currentAdminInfo' = Null
    /\ showLoginModal
    /\ IF SoftTruthy(soft)
          THEN CanAlert /\ showAlert("You have been logged out.", "info")
          ELSE alerts' = alerts

\* logout(soft) after its `if (sessionToken) { await fetch }`
logout_end(soft) ==
    /\ clearToken
    /\ currentAdminInfo' = Null
    /\ showLoginModal
    /\ IF SoftTruthy(soft)
          THEN alerts' = alerts
          ELSE CanAlert /\ showAlert("You have been logged out.", "info")

\* logout(soft) from its call, with q the requests in flight at the call:
\* it awaits the server call only when a token is held
logout_call(soft, q, ev) ==
    IF Truthy(sessionToken)
    THEN LET r == Req("logout", Bearer(sessionToken), soft, <<>>) IN
         /\ pending' = Append(q, r)
         /\ last' = Event(ev, soft, <<r>>)
         /\ UNCHANGED <<sessionVars, loginModal, mainVisible, alerts>>
    ELSE /\ pending' = q
         /\ last' = Event(ev, soft, <<>>)
         /\ logout_end(soft)

\* click on #logoutBtn: the listener passes the click Event as `soft`
logout_click ==
    /\ variant \in {"v1", "v2"} /\ Idle /\ listeners /\ mainVisible /\ CanSend
    /\ logout_call("event", pending, "logout_click")
    /\ UNCHANGED <<envVars, adminVars, listeners, loginError, page, resume, formVars, leadVars>>

\* logout(soft) after the fetch settled: the response is not read, and a
\* rejection is caught and logged (`outcome` records which it was)
logout_then(i) ==
    /\ variant \in {"v1", "v2"} /\ Idle /\ pending[i].kind = "logout"
    /\ logout_end(pending[i].arg)
    /\ pending' = RemoveAt(pending, i)
    /\ \E r \in PlainResponses :
        last' = [ev |-> "logout_done", arg |-> pending[i].arg, sent |-> <<>>, outcome |-> r.t]
    /\ UNCHANGED <<envVars, adminVars, listeners, loginError, page, resume, formVars, leadVars>>

\* navigateToPage(page): shows the page and calls its loader; only
\* loadDashboard issues a request (the other loaders are placeholders)
navigateToPage_v(p, q, ev) ==
    /\ page' = p
    /\ IF p = "dashboard"
          THEN LET d == Req("dashboard", Bearer(sessionToken), "-", <<>>) IN
               /\ pending' = Append(q, d)
               /\ last' = Event(ev, p, <<d>>)
          ELSE /\ pending' = q
               /\ last' = Event(ev, p, <<>>)

Pages_v == {"dashboard", "tenants", "users", "audit-logs", "settings"}

\* click on a sidebar item
navigate_click_v ==
    /\ variant \in {"v1", "v2"} /\ Idle /\ listeners /\ mainVisible /\ CanSend
    /\ \E p \in Pages_v : navigateToPage_v(p, pending, "navigate")
    /\ UNCHANGED <<envVars, adminVars, sessionVars, listeners, loginModal, mainVisible, loginError,
                   alerts, resume, formVars, leadVars>>

\* submit of #loginForm: handleLogin up to `await fetch(.../auth/login)`
handleLogin_v ==
    /\ variant \in {"v1", "v2"} /\ Idle /\ listeners /\ loginModal /\ CanSend
    /\ LET r == Req("login", NoAuth, "-", <<>>) IN
        /\ pending' = Append(pending, r)
        /\ last' = Event("login_submit", "-", <<r>>)
    /\ UNCHANGED <<envVars, adminVars, sessionVars, listeners, viewVars, alerts, resume, formVars, leadVars>>

\* the test of the login response: v1 `data.success`,
\* v2 `data.success && data.session_token`
LoginAccepted_v1(r) == r.t = "json" /\ r.success
LoginAccepted_v2(r) == r.t = "json" /\ r.success /\ Truthy(r.token)

\* handleLogin from the response on, up to `await loadDashboard()`
handleLogin_v_body(i, v) ==
    \E r \in LoginResponses :
        IF (IF v = "v1" THEN LoginAccepted_v1(r) ELSE LoginAccepted_v2(r))
        THEN LET d == Req("dashboard", Bearer(r.token), "-", <<"login">>) IN
             /\ storeToken(r.token)
             /\ currentAdminInfo' = r.info
             /\ hideLoginModal
             /\ pending' = Append(RemoveAt(pending, i), d)
             /\ last' = Event("login_ok", r.token, <<d>>)
             /\ UNCHANGED <<loginError>>
        ELSE /\ showLoginError
             /\ pending' = RemoveAt(pending, i)
             /\ last' = Event(IF r.t = "json" /\ r.success THEN "login_no_token"
                              ELSE "login_failed", r.token, <<>>)
             /\ UNCHANGED <<sessionVars, loginModal, mainVisible>>

handleLogin_v1_then(i) ==
    /\ variant = "v1" /\ Idle /\ pending[i].kind = "login"
    /\ handleLogin_v_body(i, "v1")
    /\ UNCHANGED <<envVars, adminVars, listeners, page, alerts, resume, formVars, leadVars>>

handleLogin_v2_then(i) ==
    /\ variant = "v2" /\ Idle /\ pending[i].kind = "login"
    /\ handleLogin_v_body(i, "v2")
    /\ UNCHANGED <<envVars, adminVars, listeners, page, alerts, resume, formVars, leadVars>>

\* handleLogin after `await loadDashboard()`
handleLogin_v_resume ==
    /\ variant \in {"v1", "v2"} /\ resume # <<>> /\ Head(resume) = "login" /\ CanAlert
    /\ navigateToPage_v("dashboard", pending, "login_done")
    /\ showAlert("Login successful!", "success")
    /\ resume' = Tail(resume)
    /\ UNCHANGED <<envVars, adminVars, sessionVars, listeners, loginModal, mainVisible, loginError,
                   formVars, leadVars>>

\* validateSession from the response on
validateSession_v_then(i) ==
    /\ variant \in {"v1", "v2"} /\ Idle /\ pending[i].kind = "validate"
    /\ \E r \in ValidateResponses :
        IF r.t = "json" /\ r.success /\ Truthy(r.info)
        THEN LET d == Req("dashboard", Bearer(sessionToken), "-", <<"validate">>) IN
             /\ currentAdminInfo' = r.info
             /\ hideLoginModal
             /\ pending' = Append(RemoveAt(pending, i), d)
             /\ last' = Event("validate_ok", "-", <<d>>)
             /\ UNCHANGED <<sessionToken, storage, alerts>>
        ELSE logout_call("true", RemoveAt(pending, i), "validate_failed")
    /\ UNCHANGED <<envVars, adminVars, listeners, loginError, page, resume, formVars, leadVars>>

\* validateSession after `await loadDashboard()`
validateSession_v_resume ==
    /\ variant \in {"v1", "v2"} /\ resume # <<>> /\ Head(resume) = "validate"
    /\ navigateToPage_v("dashboard", pending, "validate_done")
    /\ resume' = Tail(resume)
    /\ UNCHANGED <<envVars, adminVars, sessionVars, listeners, loginModal, mainVisible, loginError,
                   alerts, formVars, leadVars>>

\* loadDashboard from the response on: v1 throws on an incomplete body and
\* alerts from its catch
loadDashboard_v1_then(i) ==
    /\ variant = "v1" /\ Idle /\ pending[i].kind = "dashboard"
    /\ \E r \in PlainResponses :
        IF r.t = "json" /\ r.success /\ r.data
        THEN /\ alerts' = alerts
             /\ last' = Event("dashboard_ok", "-", <<>>)
        ELSE /\ CanAlert
             /\ showAlert("Failed to load dashboard data. Please try again.", "error")
             /\ last' = Event("dashboard_failed", r.t, <<>>)
    /\ pending' = RemoveAt(pending, i)
    /\ resume' = pending[i].cont
    /\ UNCHANGED <<envVars, adminVars, sessionVars, listeners, viewVars, formVars, leadVars>>

\* loadDashboard from the response on: v2 only logs an incomplete body
loadDashboard_v2_then(i) ==
    /\ variant = "v2" /\ Idle /\ pending[i].kind = "dashboard"
    /\ \E r \in PlainResponses :
        IF r.t = "json"
        THEN /\ alerts' = alerts
             /\ last' = Event(IF r.success /\ r.data THEN "dashboard_ok"
                              ELSE "dashboard_failed", r.t, <<>>)
        ELSE /\ CanAlert
             /\ showAlert("Failed to load dashboard data", "error")
             /\ last' = Event("dashboard_failed", r.t, <<>>)
    /\ pending' = RemoveAt(pending, i)
    /\ resume' = pending[i].cont
    /\ UNCHANGED <<envVars, adminVars, sessionVars, listeners, viewVars, formVars, leadVars>>

\* ------------------------------------------------------------------------
\* portal: the user portal script in src/migrate_db_direct.sh
\* ------------------------------------------------------------------------

\* showMainContent(): closes both modals, shows the main container and
\* calls loadUserLeads(), which runs up to its fetch; q: requests in flight,
\* tok: userToken at the call
showMainContent(q, tok, ev, arg) ==
    LET l == Req("leads", Bearer(tok), filterValue, <<>>) IN
    /\ loginModal' = FALSE
    /\ modals' = modals \ {"passwordSetupModal"}
    /\ mainVisible' = TRUE
    /\ pending' = Append(q, l)
    /\ last' = Event(ev, arg, <<l>>)

\* handleUserLogout(): synchronous, no server call
handleUserLogout ==
    /\ clearToken
    /\ currentAdminInfo' = Null
    /\ mainVisible' = FALSE
    /\ loginModal' = TRUE

\* click on #userLogoutBtn
handleUserLogout_click ==
    /\ variant = "portal" /\ Idle /\ listeners /\ mainVisible
    /\ handleUserLogout
    /\ last' = Event("logout_now", "-", <<>>)
    /\ UNCHANGED <<envVars, adminVars, listeners, loginError, page, alerts, pending, resume, formVars, leadVars>>

\* submit of #userLoginForm: handleUserLogin up to `await fetch(.../user/login)`
handleUserLogin ==
    /\ variant = "portal" /\ Idle /\ listeners /\ loginModal /\ CanSend
    /\ loginError' = FALSE
    /\ LET r == Req("login", NoAuth, "-", <<>>) IN
        /\ pending' = Append(pending, r)
        /\ last' = Event("login_submit", "-", <<r>>)
    /\ UNCHANGED <<envVars, adminVars, sessionVars, listeners, loginModal, mainVisible, page, alerts,
                   resume, formVars, leadVars>>

\* handleUserLogin from the response on
handleUserLogin_then(i) ==
    /\ variant = "portal" /\ Idle /\ pending[i].kind = "login"
    /\ \E r \in LoginResponses :
        IF r.t = "json" /\ r.success
        THEN /\ storeToken(r.token)
             /\ currentAdminInfo' = r.info
             /\ showMainContent(RemoveAt(pending, i), r.token, "login_ok", r.token)
             /\ UNCHANGED <<loginError, setupError, leadVars>>
        ELSE /\ showLoginError
             /\ pending' = RemoveAt(pending, i)
             /\ last' = Event("login_failed", "-", <<>>)
             /\ UNCHANGED <<sessionVars, loginModal, mainVisible, formVars, leadVars>>
    /\ UNCHANGED <<envVars, adminVars, listeners, page, alerts, resume>>

\* validateUserSession from the response on
validateUserSession_then(i) ==
    /\ variant = "portal" /\ Idle /\ pending[i].kind = "validate"
    /\ \E r \in ValidateResponses :
        IF r.t = "json" /\ r.success
        THEN /\ currentAdminInfo' = r.info
             /\ showMainContent(RemoveAt(pending, i), sessionToken, "validate_ok", "-")
             /\ UNCHANGED <<sessionToken, storage, setupError, leadVars>>
        ELSE /\ handleUserLogout
             /\ pending' = RemoveAt(pending, i)
             /\ last' = Event("validate_failed", "-", <<>>)
             /\ UNCHANGED <<formVars, leadVars>>
    /\ resume' = pending[i].cont
    /\ UNCHANGED <<envVars, adminVars, listeners, loginError, page, alerts>>

\* change of a filter control (#userStatusFilter, #userPriorityFilter or the
\* checkbox #userMyLeadsOnly): loadUserLeads up to its fetch
loadUserLeads_change ==
    /\ variant = "portal" /\ Idle /\ listeners /\ mainVisible /\ CanSend
    /\ filterValue' \in FilterValues \ {filterValue}
    /\ LET l == Req("leads", Bearer(sessionToken), filterValue', <<>>) IN
        /\ pending' = Append(pending, l)
        /\ last' = Event("filter_change", "-", <<l>>)
    /\ UNCHANGED <<envVars, adminVars, sessionVars, listeners, viewVars, alerts, resume, formVars,
                   leads, currentLeadId>>

\* loadUserLeads from the response on; displayUserLeads(data.leads || [])
loadUserLeads_then(i) ==
    /\ variant = "portal" /\ Idle /\ pending[i].kind = "leads"
    /\ \E r \in PlainResponses :
        IF r.t = "json" /\ r.success
        THEN /\ alerts' = alerts
             /\ leads' \in IF r.data THEN SUBSET LeadIds ELSE {{}}
             /\ last' = Event("leads_ok", pending[i].arg, <<>>)
        ELSE /\ CanAlert
             /\ showAlert(IF r.t = "throw" THEN "Failed to load leads"
                          ELSE "data.message", "error")
             /\ leads' = leads
             /\ last' = Event("leads_failed", r.t, <<>>)
    /\ pending' = RemoveAt(pending, i)
    /\ UNCHANGED <<envVars, adminVars, sessionVars, listeners, viewVars, resume, formVars, currentLeadId,
                   filterValue>>

\* click on a lead card: viewLead(leadId) up to its fetch
viewLead(id) ==
    /\ variant = "portal" /\ Idle /\ mainVisible /\ id \in leads /\ CanSend
    /\ LET r == Req("lead", Bearer(sessionToken), id, <<>>) IN
        /\ pending' = Append(pending, r)
        /\ last' = Event("lead_click", id, <<r>>)
    /\ UNCHANGED <<envVars, adminVars, sessionVars, listeners, viewVars, alerts, resume, formVars, leadVars>>

\* viewLead from the response on: `data.success && data.lead`
viewLead_then(i) ==
    /\ variant = "portal" /\ Idle /\ pending[i].kind = "lead"
    /\ \E r \in PlainResponses :
        IF r.t = "json" /\ r.success /\ r.data
        THEN /\ currentLeadId' = pending[i].arg
             /\ modals' = modals \cup {"leadDetailModal"}
             /\ alerts' = alerts
             /\ last' = Event("lead_ok", pending[i].arg, <<>>)
        ELSE /\ CanAlert
             /\ showAlert(IF r.t = "throw" THEN "Failed to load lead details"
                          ELSE "data.message", "error")
             /\ UNCHANGED <<currentLeadId, modals>>
             /\ last' = Event("lead_failed", r.t, <<>>)
    /\ pending' = RemoveAt(pending, i)
    /\ UNCHANGED <<envVars, adminVars, sessionVars, listeners, viewVars, resume, setupError, leads,
                   filterValue>>

\* click on the save button of #leadDetailModal: updateLead up to its fetch
updateLead ==
    /\ variant = "portal" /\ Idle /\ "leadDetailModal" \in modals
    /\ IF ~Truthy(currentLeadId)
          THEN /\ pending' = pending
               /\ last' = Event("lead_update_skipped", "-", <<>>)
          ELSE LET r == Req("lead_update", Bearer(sessionToken), currentLeadId, <<>>) IN
               /\ CanSend
               /\ pending' = Append(pending, r)
               /\ last' = Event("lead_update_click", currentLeadId, <<r>>)
    /\ UNCHANGED <<envVars, adminVars, sessionVars, listeners, viewVars, alerts, resume, formVars, leadVars>>

\* updateLead from the response on
updateLead_then(i) ==
    /\ variant = "portal" /\ Idle /\ pending[i].kind = "lead_update" /\ CanAlert
    /\ \E r \in PlainResponses :
        IF r.t = "json" /\ r.success
        THEN LET l == Req("leads", Bearer(sessionToken), filterValue, <<>>) IN
             /\ showAlert("Lead updated successfully!", "success")
             /\ modals' = modals \ {"leadDetailModal"}
             /\ pending' = Append(RemoveAt(pending, i), l)
             /\ last' = Event("lead_update_ok", pending[i].arg, <<l>>)
        ELSE /\ showAlert(IF r.t = "throw" THEN "Failed to update lead"
                          ELSE "data.message", "error")
             /\ modals' = modals
             /\ pending' = RemoveAt(pending, i)
             /\ last' = Event("lead_update_failed", r.t, <<>>)
    /\ UNCHANGED <<envVars, adminVars, sessionVars, listeners, viewVars, resume, setupError, leadVars>>

\* click on #setupPasswordLink
setupPasswordLink_click ==
    /\ variant = "portal" /\ Idle /\ listeners /\ loginModal
    /\ loginModal' = FALSE
    /\ modals' = modals \cup {"passwordSetupModal"}
    /\ last' = Event("setup_link", "-", <<>>)
    /\ UNCHANGED <<envVars, adminVars, sessionVars, listeners, mainVisible, loginError, page, alerts,
                   pending, resume, setupError, leadVars>>

\* (mutant) the length is checked before the confirmation
handlePasswordSetup_check_lengthFirst(password, confirmPassword) ==
    IF Len(password) < MinPasswordLength THEN "Password must be at least 8 characters"
    ELSE IF password # confirmPassword THEN "Passwords do not match"
    ELSE Null

\* the two checks handlePasswordSetup makes before its fetch: the message it
\* shows, or Null when the form passes
handlePasswordSetup_check(password, confirmPassword) ==
    IF password # confirmPassword THEN "Passwords do not match"
    ELSE IF Len(password) < MinPasswordLength THEN "Password must be at least 8 characters"
    ELSE Null

\* (mutant) the length of the password is not checked
handlePasswordSetup_noLengthCheck ==
    /\ variant = "portal" /\ Idle /\ listeners /\ "passwordSetupModal" \in modals
    /\ \E password \in Passwords, confirmPassword \in Passwords :
        LET msg == IF password # confirmPassword THEN "Passwords do not match" ELSE Null
            r == Req("setup", NoAuth, "-", <<>>)
            sent == IF msg = Null THEN <<r>> ELSE <<>>
        IN  /\ msg = Null => CanSend
            /\ setupError' = msg
            /\ pending' = pending \o sent
            /\ last' = [ev |-> "setup_submit", arg |-> "-", sent |-> sent,
                        password |-> password, confirmPassword |-> confirmPassword]
    /\ UNCHANGED <<envVars, adminVars, sessionVars, listeners, viewVars, alerts, resume, modals, leadVars>>

\* submit of #passwordSetupForm: handlePasswordSetup up to its fetch
handlePasswordSetup ==
    /\ variant = "portal" /\ Idle /\ listeners /\ "passwordSetupModal" \in modals
    /\ \E password \in Passwords, confirmPassword \in Passwords :
        LET msg == handlePasswordSetup_check(password, confirmPassword)
            r == Req("setup", NoAuth, "-", <<>>)
            sent == IF msg = Null THEN <<r>> ELSE <<>>
        IN  /\ msg = Null => CanSend
            /\ setupError' = msg
            /\ pending' = pending \o sent
            /\ last' = [ev |-> "setup_submit", arg |-> "-", sent |-> sent,
                        password |-> password, confirmPassword |-> confirmPassword]
    /\ UNCHANGED <<envVars, adminVars, sessionVars, listeners, viewVars, alerts, resume, modals, leadVars>>

\* handlePasswordSetup from the response on
handlePasswordSetup_then(i) ==
    /\ variant = "portal" /\ Idle /\ pending[i].kind = "setup"
    /\ \E r \in PlainResponses :
        IF r.t = "json" /\ r.success
        THEN /\ CanAlert
             /\ showAlert("Password set successfully! You can now login.", "success")
             /\ modals' = modals \ {"passwordSetupModal"}
             /\ loginModal' = TRUE
             /\ setupError' = setupError
             /\ last' = Event("setup_ok", "-", <<>>)
        ELSE /\ setupError' = IF r.t = "throw" THEN "Failed to set password. Please try again."
                              ELSE "data.message"
             /\ UNCHANGED <<alerts, modals, loginModal>>
             /\ last' = Event("setup_failed", r.t, <<>>)
    /\ pending' = RemoveAt(pending, i)
    /\ UNCHANGED <<envVars, adminVars, sessionVars, listeners, mainVisible, loginError, page, resume,
                   leadVars>>

\* ------------------------------------------------------------------------
\* Session handling of the four scripts
\* ------------------------------------------------------------------------
NextSession ==
    \/ AlertTimeout
    \/ handleLogin_admin
    \/ \E i \in 1..Len(pending) : handleLogin_admin_then(i)
    \/ handleLogin_admin_resume
    \/ \E i \in 1..Len(pending) : validateSession_admin_then(i)
    \/ validateSession_admin_resume
    \/ DOMContentLoaded_resume
    \/ logout_admin
    \/ \E i \in 1..Len(pending) : logout_admin_then(i)
    \/ \E i \in 1..Len(pending) : loadDashboard_admin_then(i)
    \/ logout_click
    \/ \E i \in 1..Len(pending) : logout_then(i)
    \/ navigate_click_v
    \/ handleLogin_v
    \/ \E i \in 1..Len(pending) : handleLogin_v1_then(i)
    \/ \E i \in 1..Len(pending) : handleLogin_v2_then(i)
    \/ handleLogin_v_resume
    \/ \E i \in 1..Len(pending) : validateSession_v_then(i)
    \/ validateSession_v_resume
    \/ \E i \in 1..Len(pending) : loadDashboard_v1_then(i)
    \/ \E i \in 1..Len(pending) : loadDashboard_v2_then(i)
    \/ handleUserLogout_click
    \/ handleUserLogin
    \/ \E i \in 1..Len(pending) : handleUserLogin_then(i)
    \/ \E i \in 1..Len(pending) : validateUserSession_then(i)
    \/ \E i \in 1..Len(pending) : loadUserLeads_then(i)

\* ------------------------------------------------------------------------
\* The user portal: session, password setup and leads
\* ------------------------------------------------------------------------
NextPortal ==
    \/ AlertTimeout
    \/ DOMContentLoaded_resume
    \/ handleUserLogout_click
    \/ handleUserLogin
    \/ \E i \in 1..Len(pending) : handleUserLogin_then(i)
    \/ \E i \in 1..Len(pending) : validateUserSession_then(i)
    \/ loadUserLeads_change
    \/ \E i \in 1..Len(pending) : loadUserLeads_then(i)
    \/ \E id \in LeadIds : viewLead(id)
    \/ \E i \in 1..Len(pending) : viewLead_then(i)
    \/ updateLead
    \/ \E i \in 1..Len(pending) : updateLead_then(i)

\* ------------------------------------------------------------------------
\* The admin dashboard: session, users and tenants, deletion
\* ------------------------------------------------------------------------
\* A logged-in session at rest: token "t2" stored, the main view shown, no
\* modal open, nothing on display yet; q: the requests in flight, l: the last event.
Settled(v, p, q, l) ==
    /\ variant = v /\ tenantsTable = MigratedTable
    /\ sessionToken = "t2" /\ storage = "t2" /\ currentAdminInfo = "full"
    /\ listeners = TRUE /\ loginModal = FALSE /\ mainVisible = TRUE /\ loginError = FALSE
    /\ page = p
    /\ alerts = <<>> /\ pending = q /\ resume = <<>>
    /\ modals = {} /\ setupError = Null
    /\ leads = {} /\ currentLeadId = Null /\ filterValue = ""
    /\ users = {} /\ serverUsers = UserIds /\ tenants = "empty"
    /\ currentDeleteTarget = NoTarget
    /\ currentEditingUserId = Null /\ currentTokenUserId = Null
    /\ userForm = Null /\ tenantId = "" /\ tenantActive = "true"
    /\ passwordForm = BlankPasswordForm
    /\ last = l

\* The dashboard once an administrator has logged in, the dashboard has
\* loaded and the "Login successful!" alert is gone (SpecSession reaches it).
LoggedIn_admin == Settled("admin", "dashboard", <<>>, Event("alert_removed", "-", <<>>))

\* From there, a click on the sidebar item of page p (navigateToPage_admin).
OnPage_admin(p) ==
    LET sent == PageLoad(p, "t2", "")
    IN  Settled("admin", p, sent, Event(NavigateEvent(p), p, sent))

InitUsers == apiStrict \in BOOLEAN /\ LoggedIn_admin

NextUsers ==
    \/ AlertTimeout
    \/ navigateToPage_admin("users")
    \/ \E i \in 1..Len(pending) : loadUsers_then(i)
    \/ \E i \in 1..Len(pending) : loadTenants_then(i)
    \/ loadTenantsForDropdown_resume
    \/ \E id \in UserIds : confirmDeleteUser(id)
    \/ confirmDelete
    \/ \E i \in 1..Len(pending) : confirmDelete_then(i)
    \/ filterUsers

SpecUsers == InitUsers /\ [][NextUsers]_vars

\* ------------------------------------------------------------------------
\* The requests of a logged-in administrator or user
\* ------------------------------------------------------------------------

\* The portal once a user has logged in and the leads have loaded
\* (SpecSession reaches it).
LoggedIn_portal == Settled("portal", "dashboard", <<>>, Event("leads_ok", "", <<>>))

\* v1 and v2 once an administrator has logged in and the dashboard has loaded
LoggedIn_v(v) == Settled(v, "dashboard", <<>>, Event("alert_removed", "-", <<>>))

\* Each page of the admin dashboard is taken from the click that opened it.
InitCrud ==
    /\ apiStrict \in BOOLEAN
    /\ \/ LoggedIn_portal
       \/ \E p \in Pages_admin : OnPage_admin(p)
       \/ \E v \in {"v1", "v2"} : LoggedIn_v(v)

\* one user's row is worked on, and MaxCrudPending requests are in flight at most
CrudUsers == {"u1"}
NextCrud ==
  /\
    \/ AlertTimeout
    \/ \E i \in 1..Len(pending) : loadUsers_then(i)
    \/ \E i \in 1..Len(pending) : loadTenants_then(i)
    \/ loadTenantsForDropdown_resume
    \/ \E id \in CrudUsers : confirmDeleteUser(id)
    \/ confirmDelete
    \/ \E i \in 1..Len(pending) : confirmDelete_then(i)
    \/ openAddUserModal
    \/ \E id \in CrudUsers : openEditUserModal(id)
    \/ \E i \in 1..Len(pending) : openEditUserModal_then(i)
    \/ handleSaveUser
    \/ \E i \in 1..Len(pending) : handleSaveUser_then(i)
    \/ \E id \in CrudUsers : openTokenModal(id)
    \/ downloadCurrentToken
    \/ \E i \in 1..Len(pending) : downloadCurrentToken_then(i)
    \/ deleteCurrentToken
    \/ \E i \in 1..Len(pending) : deleteCurrentToken_then(i)
    \/ handleTokenUpload
    \/ \E i \in 1..Len(pending) : handleTokenUpload_then(i)
    \/ handleChangePassword
    \/ \E i \in 1..Len(pending) : handleChangePassword_then(i)
    \/ filter_change_admin
    \/ \E i \in 1..Len(pending) : loadAuditLogs_then(i)
    \/ \E i \in 1..Len(pending) : loadCrmLeads_then(i)
    \/ \E id \in LeadIds : viewCrmLead(id)
    \/ \E i \in 1..Len(pending) : viewCrmLead_then(i)
    \/ updateCrmLeadStatus
    \/ \E i \in 1..Len(pending) : updateCrmLeadStatus_then(i)
    \/ loadUserLeads_change
    \/ \E i \in 1..Len(pending) : loadUserLeads_then(i)
    \/ \E id \in LeadIds : viewLead(id)
    \/ \E i \in 1..Len(pending) : viewLead_then(i)
    \/ updateLead
    \/ \E i \in 1..Len(pending) : updateLead_then(i)
    \/ navigate_click_v
    \/ \E i \in 1..Len(pending) : loadDashboard_v1_then(i)
    \/ \E i \in 1..Len(pending) : loadDashboard_v2_then(i)
  /\ Len(pending') <= MaxCrudPending

SpecCrud == InitCrud /\ [][NextCrud]_vars

\* ------------------------------------------------------------------------
\* The user form and the token modal of the users page, every user row,
\* MaxPending requests in flight
\* ------------------------------------------------------------------------
InitForms == apiStrict \in BOOLEAN /\ OnPage_admin("users")

NextForms ==
    \/ AlertTimeout
    \/ \E i \in 1..Len(pending) : loadUsers_then(i)
    \/ \E i \in 1..Len(pending) : loadTenants_then(i)
    \/ loadTenantsForDropdown_resume
    \/ openAddUserModal
    \/ \E id \in UserIds : openEditUserModal(id)
    \/ \E i \in 1..Len(pending) : openEditUserModal_then(i)
    \/ handleSaveUser
    \/ \E i \in 1..Len(pending) : handleSaveUser_then(i)
    \/ \E id \in UserIds : openTokenModal(id)
    \/ downloadCurrentToken
    \/ \E i \in 1..Len(pending) : downloadCurrentToken_then(i)
    \/ deleteCurrentToken
    \/ \E i \in 1..Len(pending) : deleteCurrentToken_then(i)
    \/ handleTokenUpload
    \/ \E i \in 1..Len(pending) : handleTokenUpload_then(i)

SpecForms == InitForms /\ [][NextForms]_vars

\* ------------------------------------------------------------------------
\* The two save forms, of the users page (one user's row is edited) and of
\* the tenants page
\* ------------------------------------------------------------------------
InitSaves == apiStrict \in BOOLEAN /\ \E p \in {"users", "tenants"} : OnPage_admin(p)

NextSaves ==
    \/ AlertTimeout
    \/ \E i \in 1..Len(pending) : loadUsers_then(i)
    \/ \E i \in 1..Len(pending) : loadTenants_then(i)
    \/ loadTenantsForDropdown_resume
    \/ openAddUserModal
    \/ \E id \in CrudUsers : openEditUserModal(id)
    \/ \E i \in 1..Len(pending) : openEditUserModal_then(i)
    \/ handleSaveUser
    \/ \E i \in 1..Len(pending) : handleSaveUser_then(i)
    \/ openAddTenantModal
    \/ \E id \in TenantIds : openEditTenantModal(id)
    \/ handleSaveTenant
    \/ \E i \in 1..Len(pending) : handleSaveTenant_then(i)

SpecSaves == InitSaves /\ [][NextSaves]_vars

\* ------------------------------------------------------------------------
\* The sidebar of the admin dashboard: every page, from the state after login
\* ------------------------------------------------------------------------
NextNav ==
    \/ AlertTimeout
    \/ \E p \in Pages_admin : navigateToPage_admin(p)
    \/ \E i \in 1..Len(pending) : loadUsers_then(i)
    \/ \E i \in 1..Len(pending) : loadTenants_then(i)
    \/ loadTenantsForDropdown_resume
    \/ \E i \in 1..Len(pending) : loadAuditLogs_then(i)
    \/ \E i \in 1..Len(pending) : loadCrmLeads_then(i)

SpecNav == InitUsers /\ [][NextNav]_vars

\* ------------------------------------------------------------------------
\* The filtered lists and the alerts: loads overlap, alerts are closed or
\* time out
\* ------------------------------------------------------------------------
InitLists ==
    /\ apiStrict \in BOOLEAN
    /\ \/ LoggedIn_portal
       \/ \E p \in {"crm", "audit-logs"} : OnPage_admin(p)
       \/ \E v \in {"v1", "v2"} : LoggedIn_v(v)

NextLists ==
    \/ AlertTimeout
    \/ \E j \in 1..Len(alerts) : Alert_close(j)
    \/ filter_change_admin
    \/ \E i \in 1..Len(pending) : loadAuditLogs_then(i)
    \/ \E i \in 1..Len(pending) : loadCrmLeads_then(i)
    \/ loadUserLeads_change
    \/ \E i \in 1..Len(pending) : loadUserLeads_then(i)
    \/ navigate_click_v
    \/ \E i \in 1..Len(pending) : loadDashboard_v1_then(i)
    \/ \E i \in 1..Len(pending) : loadDashboard_v2_then(i)

SpecLists == InitLists /\ [][NextLists]_vars

\* ------------------------------------------------------------------------
\* The migration script, run against any database, MaxRuns times at most.
\* psql runs the statements of the heredoc one by one, each in its own
\* transaction and without ON_ERROR_STOP; last.arg counts the finished runs.
\* ------------------------------------------------------------------------
InitMigrate ==
    /\ variant = "portal" /\ apiStrict = TRUE
    /\ tenantsTable \in Tables
    /\ sessionToken = Null /\ storage = Null /\ currentAdminInfo = Null
    /\ listeners = TRUE /\ loginModal = TRUE /\ mainVisible = FALSE /\ loginError = FALSE
    /\ page = "dashboard"
    /\ alerts = <<>> /\ pending = <<>> /\ resume = <<>>
    /\ modals = {} /\ setupError = Null
    /\ leads = {} /\ currentLeadId = Null /\ filterValue = ""
    /\ users = {} /\ serverUsers = UserIds /\ tenants = "empty"
    /\ currentDeleteTarget = NoTarget
    /\ currentEditingUserId = Null /\ currentTokenUserId = Null
    /\ userForm = Null /\ tenantId = "" /\ tenantActive = "true"
    /\ passwordForm = BlankPasswordForm
    /\ last = Event("db", 0, <<>>)

\* ALTER TABLE tenants ADD COLUMN IF NOT EXISTS created_at ...
migrate_created_at ==
    /\ last.ev \in {"db", "migrated"}
    /\ last.arg < MaxRuns
    /\ tenantsTable' = AddColumnIfNotExists(tenantsTable, "created_at", MigrationColumn)
    /\ last' = Event("alter_created_at", last.arg, <<>>)
    /\ UNCHANGED <<variant, apiStrict, sessionVars, listeners, viewVars, alerts, pending,
                   resume, formVars, leadVars, adminVars>>

\* ALTER TABLE tenants ADD COLUMN IF NOT EXISTS updated_at ..., then the end
\* of the script
migrate_updated_at ==
    /\ last.ev = "alter_created_at"
    /\ tenantsTable' = AddColumnIfNotExists(tenantsTable, "updated_at", MigrationColumn)
    /\ last' = Event("migrated", last.arg + 1, <<>>)
    /\ UNCHANGED <<variant, apiStrict, sessionVars, listeners, viewVars, alerts, pending,
                   resume, formVars, leadVars, adminVars>>

NextMigrate == migrate_created_at \/ migrate_updated_at

SpecMigrate == InitMigrate /\ [][NextMigrate]_vars

InitPortal == Init /\ variant = "portal"
SpecPortal == InitPortal /\ [][NextPortal]_vars

\* the user portal: page load, logout and password setup
NextSetup ==
    \/ AlertTimeout
    \/ DOMContentLoaded_resume
    \/ handleUserLogout_click
    \/ \E i \in 1..Len(pending) : validateUserSession_then(i)
    \/ \E i \in 1..Len(pending) : loadUserLeads_then(i)
    \/ setupPasswordLink_click
    \/ handlePasswordSetup
    \/ \E i \in 1..Len(pending) : handlePasswordSetup_then(i)

SpecSetup == InitPortal /\ [][NextSetup]_vars

\* ------------------------------------------------------------------------
\* apiRequest of version 1, called with any options
\* ------------------------------------------------------------------------
\* the headers of the model; an object of headers gives each either a value
\* or Undef (it has no such key)
HeaderNames == {"Authorization", "Content-Type", "X-Trace"}

\* apiRequest(endpoint, options) up to its fetch.  `config` is built by two
\* object spreads: `headers` is the defaults overlaid with options.headers,
\* then `...options` overlays config, and with it the key `headers` when
\* options has one.
apiRequest ==
    /\ variant = "v1" /\ Idle /\ mainVisible /\ CanSend
    /\ \E options \in [hasHeaders : BOOLEAN, headers : [HeaderNames -> {Undef, "caller"}]] :
        /\ ~options.hasHeaders => \A k \in HeaderNames : options.headers[k] = Undef
        /\ LET defaults == [k \in HeaderNames |->
                              CASE k = "Authorization" -> Bearer(sessionToken)
                                [] k = "Content-Type" -> "application/json"
                                [] OTHER -> Undef]
               merged == [k \in HeaderNames |->
                            IF options.headers[k] # Undef THEN options.headers[k]
                            ELSE defaults[k]]
               config == [headers |-> IF options.hasHeaders THEN options.headers
                                      ELSE merged]
               auth == config.headers["Authorization"]
               r == Req("api", IF auth = Undef THEN NoAuth ELSE auth, "-", <<>>)
           IN
            /\ pending' = Append(pending, r)
            /\ last' = [ev |-> "api_request", arg |-> "-", sent |-> <<r>>,
                        options |-> options, config |-> config]
    /\ UNCHANGED <<envVars, adminVars, sessionVars, listeners, viewVars, alerts, resume,
                   formVars, leadVars>>

\* apiRequest from the response on: the parsed body is returned, or the
\* error (rejection, status not ok, body not JSON) is alerted and rethrown
apiRequest_then(i) ==
    /\ variant = "v1" /\ Idle /\ pending[i].kind = "api"
    /\ \E ok \in BOOLEAN :
        IF ok
        THEN /\ alerts' = alerts
             /\ last' = Event("api_ok", "-", <<>>)
        ELSE /\ CanAlert
             /\ showAlert("error.message", "error")
             /\ last' = Event("api_failed", "-", <<>>)
    /\ pending' = RemoveAt(pending, i)
    /\ UNCHANGED <<envVars, adminVars, sessionVars, listeners, viewVars, resume, formVars,
                   leadVars>>

InitApi == apiStrict \in BOOLEAN /\ LoggedIn_v("v1")

NextApi ==
    \/ AlertTimeout
    \/ apiRequest
    \/ \E i \in 1..Len(pending) : apiRequest_then(i)

SpecApi == InitApi /\ [][NextApi]_vars

SpecSession == Init /\ [][NextSession]_vars

\* the same, against an API that sends every field
InitStrict == Init /\ apiStrict
StrictSession == InitStrict /\ [][NextSession]_vars
\* the awaiting callers' resumptions, and the responses to /auth/logout
Resumes ==
    \/ handleLogin_admin_resume
    \/ validateSession_admin_resume
    \/ DOMContentLoaded_resume
    \/ handleLogin_v_resume
    \/ validateSession_v_resume
LogoutSettles == \E i \in 1..Len(pending) : logout_then(i) \/ logout_admin_then(i)

\* Timers fire, microtasks run, and a fetch that was issued settles.
FairSession ==
    /\ SpecSession
    /\ WF_vars(AlertTimeout)
    /\ WF_vars(Resumes)
    /\ SF_vars(LogoutSettles)

\* ------------------------------------------------------------------------
\* Properties
\* ------------------------------------------------------------------------
LoggedOutView == loginModal /\ ~mainVisible
NoTokenStored == ~Truthy(sessionToken) /\ storage = Null

\* C1 (as stated): whenever the login response reports success, the returned
\* token is held in memory and in storage, the main view is visible and the
\* login modal is hidden.
C1_AsStated ==
    last.ev \in {"login_ok", "login_no_token"} =>
        /\ sessionToken = last.arg
        /\ storage = ToStr(last.arg)
        /\ mainVisible
        /\ ~loginModal

\* C1 (amended): whenever the login response reports success and carries a
\* session token, that token is held in memory and in storage, the main view
\* is visible and the login modal is hidden.
C1_LoginStoresToken ==
    (last.ev \in {"login_ok", "login_no_token"} /\ Truthy(last.arg)) =>
        /\ sessionToken = last.arg
        /\ storage = last.arg
        /\ mainVisible
        /\ ~loginModal

C1_Witness ==
    /\ last.ev = "login_ok"
    /\ sessionToken = "t2"
    /\ storage = "t2"
    /\ mainVisible

C3_ValidationFailureClears ==
    (last.ev = "validate_failed") ~> (NoTokenStored /\ sessionToken = Null /\ LoggedOutView)

C3_Witness ==
    /\ last.ev = "logout_done"
    /\ last.arg = "true"
    /\ NoTokenStored
    /\ LoggedOutView

\* C4: the steps of a failed session validation (its handling, and the soft
\* logout it starts) add nothing to the alert container.
C4_SoftLogoutSilent ==
    [][(\/ last'.ev = "validate_failed"
        \/ last'.ev = "logout_done" /\ last'.arg = "true") => alerts' = alerts]_vars

C4_Witness == last.ev = "logout_done" /\ last.arg = "true" /\ alerts = <<>>

\* C5 (as stated): in every state the main view is visible only if a session
\* token is stored.
C5_AsStated == NoTokenStored => ~mainVisible

\* C9 (as stated): every request other than the login and password-setup
\* requests carries the token held when it is issued, and that token is
\* neither null nor undefined.
C9_AsStated ==
    \A k \in 1..Len(last.sent) :
        last.sent[k].kind \notin {"login", "setup"} =>
            last.sent[k].auth \notin {NoAuth, "null", "undefined"}

\* C6: submitting the password-setup form with a password that differs from
\* its confirmation issues no request and shows "Passwords do not match",
\* whatever the two values are.
C6_MismatchBlocksSetup ==
    [][(last'.ev = "setup_submit" /\ last'.password # last'.confirmPassword) =>
        /\ pending' = pending
        /\ last'.sent = <<>>
        /\ setupError' = "Passwords do not match"]_vars

C6_Witness ==
    /\ last.ev = "setup_submit"
    /\ Len(last.password) < MinPasswordLength
    /\ Len(last.confirmPassword) > Len(last.password)
    /\ last.sent = <<>>
    /\ setupError = "Passwords do not match"

C8_FailedDeleteKeepsList ==
    [][last'.ev = "delete_failed" =>
        /\ users' = users
        /\ last'.sent = <<>>
        /\ Len(pending') = Len(pending) - 1
        /\ Len(alerts') = Len(alerts) + 1
        /\ SubSeq(alerts', 1, Len(alerts)) = alerts
        /\ alerts'[Len(alerts')].type = "error"]_vars

C8_Witness ==
    /\ last.ev = "delete_failed"
    /\ users = UserIds
    /\ alerts # <<>>
    /\ alerts[Len(alerts)].type = "error"

\* the failures of the requests other than login, setup, validation and logout
FailureEvents ==
    {"users_failed", "tenants_failed", "delete_failed", "user_failed", "save_user_failed",
     "token_download_failed", "token_delete_failed", "token_upload_failed",
     "change_password_failed", "audit_failed", "crm_leads_failed", "crm_lead_failed",
     "crm_update_failed", "leads_failed", "lead_failed", "lead_update_failed",
     "dashboard_failed"}

C11_AsStated ==
    [][last'.ev \in FailureEvents =>
        /\ Len(alerts') = Len(alerts) + 1
        /\ alerts'[Len(alerts')].type = "error"
        /\ alerts'[Len(alerts')].attached]_vars

\* the steps that a user starts: page load, clicks, submits, filter changes
UserEvents ==
    {"load", "login_submit", "logout_click", "navigate", "navigate_threw", "filter_change",
     "delete_ask", "delete_click", "delete_skipped", "user_add", "user_edit",
     "save_user_submit", "token_open", "token_click", "token_no_file", "token_skipped",
     "change_password_mismatch", "change_password_submit", "lead_click",
     "lead_update_click", "lead_update_skipped", "setup_link", "setup_submit",
     "alert_closed", "logout_now", "tenant_add", "tenant_edit", "save_tenant_submit"}

\* the steps of the alert timers
TimerEvents == {"alert_removed", "alert_timer"}

\* C12 (as stated): when a request has failed, the steps that follow without a
\* new user event issue no request to the same endpoint.
C12_AsStated ==
    [][last'.ev \notin UserEvents =>
        \A k \in 1..Len(last'.sent) : last.ev # last'.sent[k].kind \o "_failed"]_vars

\* C12 (what does hold): the step that handles the failure of a request
\* issues no request to the same endpoint; a timer issues none; and every
\* step that is not a user event lowers the number of requests that can still
\* follow, so that a user event causes a bounded number of requests.  Due
\* counts, for the awaiting callers and for the requests in flight, the
\* requests their continuations may still issue, with those they issue in turn.
C12_NoRetry ==
    [][LET ContWeight(c) == IF c \in {"login", "validate"} THEN 2 ELSE 1
           RECURSIVE ContSum(_)
           ContSum(c) == IF c = <<>> THEN 0 ELSE ContWeight(Head(c)) + ContSum(Tail(c))
           Weight(kind) ==
               CASE kind \in {"delete", "save_user", "token_delete", "token_upload",
                              "login", "validate"} -> 4
                 [] kind = "users" -> 3
                 [] kind \in {"crm_update", "lead_update", "save_tenant"} -> 2
                 [] OTHER -> 1
           RECURSIVE PendingSum(_)
           PendingSum(q) ==
               IF q = <<>> THEN 0
               ELSE Weight(Head(q).kind) + ContSum(Head(q).cont) + PendingSum(Tail(q))
           Due(q, c) == PendingSum(q) + ContSum(c)
       IN
       /\ \A k \in 1..Len(last'.sent) : last'.ev # last'.sent[k].kind \o "_failed"
       /\ last'.ev \in TimerEvents => pending' = pending /\ resume' = resume
       /\ last'.ev \notin (UserEvents \cup TimerEvents) =>
            Due(pending', resume') < Due(pending, resume)]_vars

\* C13: every alert in the container has its timer due; when the timer of an
\* alert that is still in the container fires, that alert and no other is
\* removed; when the alert was dismissed before, the timer changes nothing;
\* a dismissal removes one alert and leaves its timer to fire once; no other
\* step removes an alert.
C13_AlertRemovedOnce ==
    [][LET \* the alerts whose timer is due, and the alert whose timer fires next
           TimersDue(q) == Len(SelectSeq(q, LAMBDA a : a.timer))
           FirstDue == CHOOSE j \in 1..Len(alerts) :
                           alerts[j].timer /\ \A k \in 1..(j - 1) : ~alerts[k].timer
           \* the place in the container of the alert alerts[j]
           PlaceOf(j) == Len(SelectSeq(SubSeq(alerts, 1, j), LAMBDA a : a.attached))
       IN
       /\ \A j \in 1..Len(alerts') : alerts'[j].attached => alerts'[j].timer
       /\ last'.ev = "alert_removed" =>
            /\ alerts[FirstDue].attached
            /\ Container' = RemoveAt(Container, PlaceOf(FirstDue))
            /\ TimersDue(alerts') = TimersDue(alerts) - 1
       /\ last'.ev = "alert_timer" =>
            /\ ~alerts[FirstDue].attached
            /\ Container' = Container
            /\ TimersDue(alerts') = TimersDue(alerts) - 1
       /\ last'.ev = "alert_closed" =>
            /\ Len(Container') = Len(Container) - 1
            /\ TimersDue(alerts') = TimersDue(alerts)
       /\ last'.ev \notin (TimerEvents \cup {"alert_closed"}) =>
            /\ Len(Container') >= Len(Container)
            /\ SubSeq(Container', 1, Len(Container)) = Container]_vars

C13_Witness ==
    /\ last.ev = "alert_timer"
    /\ variant \in {"admin", "portal"}
    /\ alerts = <<>>

\* C19 (as stated): once no load of the list is in flight, the list on display
\* is the response to the request issued last, the one for the present value of
\* the filter.
C19_AsStated ==
    (/\ last.ev \in {"leads_ok", "crm_leads_ok", "audit_ok"}
     /\ \A j \in 1..Len(pending) : pending[j].kind \notin {"leads", "crm_leads", "audit"})
        => last.arg = filterValue

\* C14: a statement of the script adds its column only when the table lacks it
\* and never alters a column that is there; a finished run leaves created_at
\* and updated_at in place (when there is a tenants table at all) and is a
\* fixed point of the script; every statement of a later run leaves the schema
\* exactly as the first run left it.
C14_MigrationIdempotent ==
    [][/\ \A c \in ColumnNames :
            \/ tenantsTable'.cols[c] = tenantsTable.cols[c]
            \/ /\ tenantsTable.cols[c] = Absent
               /\ c \in {"created_at", "updated_at"}
               /\ tenantsTable'.cols[c] = MigrationColumn
       /\ tenantsTable'.exists = tenantsTable.exists
       /\ last'.ev = "migrated" =>
            /\ Migrate(tenantsTable') = tenantsTable'
            /\ tenantsTable'.exists =>
                 /\ tenantsTable'.cols["created_at"] # Absent
                 /\ tenantsTable'.cols["updated_at"] # Absent
       /\ last.arg >= 1 => tenantsTable' = tenantsTable]_vars

\* the second run has finished on a table whose created_at column the script
\* did not create and whose updated_at column it did
C14_Witness ==
    /\ last.ev = "migrated" /\ last.arg = 2
    /\ tenantsTable.exists
    /\ tenantsTable.cols["created_at"].type = "DATE"
    /\ tenantsTable.cols["updated_at"] = MigrationColumn
    /\ tenantsTable.cols["company_name"] = Absent

\* C15 (as stated): a submit of the user form in edit mode is a PUT to the
\* user whose data fills the form, and a submit in add mode does not carry the
\* data of an existing user.
C15_AsStated ==
    last.ev = "save_user_submit" =>
        /\ Len(last.sent) = 1
        /\ last.sent[1].form # Null => last.sent[1].arg = last.sent[1].form

\* C17 (as stated): every request of the token modal addresses the user the
\* modal was last opened for.
C17_AsStated ==
    last.ev = "token_click" =>
        /\ Len(last.sent) = 1
        /\ last.sent[1].arg = ToStr(currentTokenUserId)

\* C18: every submit of the user form or the tenant form sends its request,
\* whatever is in flight, and leaves the requests in flight as they are; a save
\* request leaves the requests in flight only by its own response, one at a
\* time, and a response leaves the other save in flight.
C18_SecondSubmitSends ==
    [][LET \* the save requests among the requests in flight
           Saves(q) == SelectSeq(q, LAMBDA r : r.kind \in {"save_user", "save_tenant"})
       IN
       /\ last'.ev \in {"save_user_submit", "save_tenant_submit"} =>
            /\ Len(last'.sent) = 1
            /\ last'.sent[1].kind \in {"save_user", "save_tenant"}
            /\ pending' = Append(pending, last'.sent[1])
       /\ Len(Saves(pending')) >= Len(Saves(pending)) - 1
       /\ Len(Saves(pending')) < Len(Saves(pending)) =>
            /\ last'.ev \in {"save_user_ok", "save_user_failed",
                             "save_tenant_ok", "save_tenant_failed"}
            /\ \E i \in 1..Len(pending) :
                 /\ pending[i].kind \in {"save_user", "save_tenant"}
                 /\ \E l \in {<<>>, last'.sent} : pending' = RemoveAt(pending, i) \o l]_vars

\* two POSTs of the same form are in flight together, the second just sent
C18_Witness ==
    /\ last.ev \in {"save_user_submit", "save_tenant_submit"}
    /\ Len(pending) = 2
    /\ pending[1] = pending[2]
    /\ pending[1].kind \in {"save_user", "save_tenant"}
    /\ pending[1].arg \in {Null, ""}

\* C16 (as stated): in v1 and v2 the stored token is removed only by a logout
\* or a failed validation that concerns that token: a failed validation of
\* another token starts no logout and leaves the token, and so does the
\* completion of a logout that was requested for another token.
C16_AsStated ==
    [][(variant \in {"v1", "v2"} /\ Truthy(sessionToken)) =>
        /\ (/\ last'.ev = "validate_failed"
            /\ \E i \in 1..Len(pending) : /\ pending[i].kind = "validate"
                                          /\ pending[i].auth # Bearer(sessionToken))
             => (last'.sent = <<>> /\ storage' = storage /\ sessionToken' = sessionToken)
        /\ (/\ last'.ev = "logout_done"
            /\ \E i \in 1..Len(pending) : /\ pending[i].kind = "logout"
                                          /\ pending' = RemoveAt(pending, i)
                                          /\ pending[i].auth # Bearer(sessionToken))
             => (storage' = storage /\ sessionToken' = sessionToken)
      ]_vars

\* C20 (as stated): navigateToPage(p) of the admin dashboard, for p among
\* dashboard, users, tenants, crm and audit-logs, returns without an error,
\* leaves p as the page shown and has started the data load of p.
C20_AsStated ==
    (/\ variant = "admin"
     /\ last.ev \in {"navigate", "navigate_threw"}
     /\ last.arg \in {"dashboard", "users", "tenants", "crm", "audit-logs"})
        => /\ last.ev = "navigate"
           /\ page = last.arg
           /\ Len(last.sent) = 1

\* C21 (as stated): in every state the token in memory and the stored token are
\* both absent or both hold the same value.
C21_AsStated ==
    \/ sessionToken = Null /\ storage = Null
    \/ sessionToken \notin {Null, Undef} /\ storage = sessionToken

\* C22: when a logout ends (the continuation of logout after its fetch, whether
\* the fetch was answered or rejected; logout with no token held, which makes
\* no server call; the portal's handleUserLogout) the token is gone from memory
\* and from storage, the admin info is cleared, the login view is shown and the
\* main view is hidden.
C22_LogoutClearsLocally ==
    (\/ last.ev \in {"logout_done", "logout_now"}
     \/ /\ variant \in {"v1", "v2"}
        /\ last.ev \in {"logout_click", "validate_failed"}
        /\ last.sent = <<>>)
        => /\ sessionToken = Null
           /\ storage = Null
           /\ currentAdminInfo = Null
           /\ LoggedOutView

\* a logout whose request was rejected has ended
C22_Witness ==
    /\ last.ev = "logout_done"
    /\ last.outcome = "throw"
    /\ sessionToken = Null /\ storage = Null /\ currentAdminInfo = Null
    /\ LoggedOutView

\* C23 (as stated): after a click on the confirm button has sent the DELETE
\* request of a confirmDeleteUser(id), a further click sends no second one; a
\* click with no target sends nothing.
C23_AsStated ==
    [][/\ (last.ev = "delete_click" /\ last'.ev = "delete_click") => last'.sent = <<>>
       /\ last'.ev = "delete_skipped" => pending' = pending]_vars

\* C24 (as stated): in v1 and v2 the end of a logout that the logout button
\* started adds the info alert "You have been logged out."
C24_AsStated ==
    [][(/\ variant \in {"v1", "v2"}
        /\ \/ last'.ev = "logout_done" /\ last'.arg = "event"
           \/ last'.ev = "logout_click" /\ last'.sent = <<>>)
        => /\ Len(alerts') = Len(alerts) + 1
           /\ alerts'[Len(alerts')].msg = "You have been logged out."
           /\ alerts'[Len(alerts')].type = "info"]_vars

\* C25: a step sends the request to /user/setup-password only if it is a submit
\* of the setup form with a password that equals its confirmation and has 8
\* characters or more, and such a submit sends it; a submit with a matching
\* password of fewer than 8 characters sends nothing and shows "Password must
\* be at least 8 characters".
C25_SetupNeedsLongPassword ==
    [][/\ (\E k \in 1..Len(last'.sent) : last'.sent[k].kind = "setup") =>
            /\ last'.ev = "setup_submit"
            /\ last'.password = last'.confirmPassword
            /\ Len(last'.password) >= 8
       /\ last'.ev = "setup_submit" =>
            /\ (last'.password = last'.confirmPassword /\ Len(last'.password) >= 8) =>
                 /\ last'.sent # <<>>
                 /\ pending' = pending \o last'.sent
                 /\ setupError' = Null
            /\ (last'.password = last'.confirmPassword /\ Len(last'.password) < 8) =>
                 /\ last'.sent = <<>>
                 /\ pending' = pending
                 /\ setupError' = "Password must be at least 8 characters"]_vars

\* a matching password of 7 characters was refused
C25_Witness ==
    /\ last.ev = "setup_submit"
    /\ last.password = last.confirmPassword
    /\ Len(last.password) = 7
    /\ last.sent = <<>>
    /\ setupError = "Password must be at least 8 characters"

\* C26: a submit of the change-password form whose new password differs from
\* its confirmation sends nothing, shows the error alert "New passwords do not
\* match" and leaves the form filled; the request to /auth/change-password is
\* sent only by a submit with two equal values; and the form is blanked only
\* by the step that handles a success response.
C26_MismatchBlocksChange ==
    [][/\ last'.ev \in {"change_password_mismatch", "change_password_submit"} =>
            IF passwordForm'.new # passwordForm'.confirm
            THEN /\ last'.ev = "change_password_mismatch"
                 /\ last'.sent = <<>>
                 /\ pending' = pending
                 /\ Len(alerts') = Len(alerts) + 1
                 /\ alerts'[Len(alerts')].msg = "New passwords do not match"
                 /\ alerts'[Len(alerts')].type = "error"
            ELSE /\ last'.ev = "change_password_submit"
                 /\ Len(last'.sent) = 1
                 /\ last'.sent[1].kind = "change_password"
       /\ (\E k \in 1..Len(last'.sent) : last'.sent[k].kind = "change_password") =>
            last'.ev = "change_password_submit"
       /\ (passwordForm # BlankPasswordForm /\ passwordForm' = BlankPasswordForm) => last'.ev = "change_password_ok"]_vars

\* a mismatch was refused and the form still holds the two values
C26_Witness ==
    /\ last.ev = "change_password_mismatch"
    /\ passwordForm.new # passwordForm.confirm
    /\ pending = <<>>
    /\ alerts # <<>>

\* C27: an edit form that is opened for a tenant and saved unchanged sends
\* the active status the server reported for that tenant.
C27_AsStated ==
    [][(last.ev = "tenant_edit" /\ last'.ev = "save_tenant_submit")
       => last'.is_active = last.tenant.status]_vars

\* C28: the users search box and enabled filter, and the portal's filter
\* controls ('my leads' among them), narrow the list on display to the
\* matching rows on the client, and issue no request.
C28_AsStated ==
    [][/\ last'.ev = "filter_users"
            => users' = users \cap last'.matching /\ pending' = pending
       /\ (variant = "portal" /\ last'.ev = "filter_change")
            => leads' \subseteq leads /\ pending' = pending]_vars

\* C29: every call of apiRequest sends the Authorization: Bearer <token> and
\* Content-Type: application/json headers, together with every header the
\* caller passed (where the caller did not pass that header itself).
C29_AsStated ==
    [][last'.ev = "api_request"
       => LET sent == last'.config.headers
              own == last'.options.headers
          IN  /\ own["Authorization"] = Undef => sent["Authorization"] = Bearer(sessionToken)
              /\ own["Content-Type"] = Undef => sent["Content-Type"] = "application/json"
              /\ \A k \in HeaderNames : own[k] # Undef => sent[k] = own[k]]_vars
====
